---------------------------- MODULE Spec2Model ----------------------------
(***************************************************************************)
(* A model of the srx symbol-ranking compressor: the buffered pipe, the    *)
(* primary (symbol ranking) context, the bridged context indices, the      *)
(* literal-byte coder, the binary range coder and the encode / decode      *)
(* pipelines.                                                              *)
(*                                                                         *)
(* A u32 register is kept at its full width as a pair <<hi, lo>> of 16-bit *)
(* halves (value = hi * 65536 + lo), so that every 32-bit wrap-around and  *)
(* the 64-bit product of BitEncoder::bit are computed exactly.             *)
(***************************************************************************)
EXTENDS Integers, Sequences, FiniteSets, TLC

(***************************************************************************)
(* u32 arithmetic on 16-bit halves.                                        *)
(***************************************************************************)
Half == 256 * 256

\* the element of a one-element set: Only({e(x) : x \in {v}}) is e(v), with v
\* computed once
Only(S) == CHOOSE x \in S : TRUE

U32Zero == <<0, 0>>

U32Max == <<65535, 65535>>

\* a < b on u32
U32Lt(a, b) == a[1] < b[1] \/ (a[1] = b[1] /\ a[2] < b[2])

U32Le(a, b) == a = b \/ U32Lt(a, b)

\* a - b, wrapping (used only where the code has a >= b)
U32Sub(a, b) ==
    LET lo == a[2] - b[2]
        borrow == IF lo < 0 THEN 1 ELSE 0
        hi == a[1] - b[1] - borrow
    IN  <<(hi + Half) % Half, (lo + Half) % Half>>

\* the carry out of the 32-bit sum a + b
U32AddCarry(a, b) ==
    LET lo == a[2] + b[2]
        hi == a[1] + b[1] + (lo \div Half)
    IN  hi \div Half

\* a + b, wrapping at 2^32
U32Add(a, b) ==
    LET lo == a[2] + b[2]
        hi == a[1] + b[1] + (lo \div Half)
    IN  <<hi % Half, lo % Half>>

\* the 32-bit product of two 16-bit numbers, as <<hi, lo>>
Mul16(a, b) ==
    LET ah == a \div 256
        al == a % 256
        bh == b \div 256
        bl == b % 256
        mid == ah * bl + al * bh
        low == al * bl + (mid % 256) * 256
    IN  <<ah * bh + (mid \div 256) + (low \div Half), low % Half>>

\* ((a as u64 * p as u64) >> 32) as u32
U32MulHigh(a, p) ==
    Only({LET s1 == x[1] + y[2] + z[2]
              s2 == y[1] + z[1] + v[2] + (s1 \div Half)
              s3 == v[1] + (s2 \div Half)
          IN  <<s3, s2 % Half>> :
          x \in {Mul16(a[2], p[2])}, y \in {Mul16(a[1], p[2])},
          z \in {Mul16(a[2], p[1])}, v \in {Mul16(a[1], p[1])}})

\* (a >> 24) as u8
TopByte(a) == a[1] \div 256

\* (high ^ low) < 0x01000000 : the two registers share their top byte
SameTopByte(a, b) == TopByte(a) = TopByte(b)

\* a << 8, wrapping
U32Shl8(a) == <<(a[1] % 256) * 256 + (a[2] \div 256), (a[2] % 256) * 256>>

\* (a << 8) | byte
U32Shl8Or(a, byte) == <<(a[1] % 256) * 256 + (a[2] \div 256), (a[2] % 256) * 256 + byte>>

(***************************************************************************)
(* Bit and Byte.                                                           *)
(***************************************************************************)
Bits == {0, 1}

Bytes == 0 .. 255

(***************************************************************************)
(* State.                                                                  *)
(*                                                                         *)
(* BitEncoder (secondary_context/encoder.rs): low, high; encOut is the     *)
(* sequence of bytes it has passed to output.output(), encClosed whether   *)
(* close() has run.  coderLast records the registers and the middle of the *)
(* latest bit() call; coderBits counts the bit() calls.                    *)
(***************************************************************************)
VARIABLES low, high, encOut, encClosed, coderLast, coderBits

coderVars == <<low, high, encOut, encClosed, coderLast, coderBits>>

(***************************************************************************)
(* Pipes (basic/pipe.rs).  pipes[i] is one pipe: its two endpoints `out`   *)
(* (BufferedOutputPipe) and `inp` (BufferedInputPipe), the two one-slot    *)
(* channels `fwd` and `back`, the contents `mem` of its two buffers and    *)
(* its capacity `size`.  sent and got are the histories of the values      *)
(* passed to output() and of the results returned by produce().            *)
(***************************************************************************)
VARIABLES pipes, sent, got

pipeVars == <<pipes, sent, got>>

(***************************************************************************)
(* Two PrimaryContext<SIZE> objects (primary_context/context.rs): primA is *)
(* driven with matching(), primB with matched() on A's outcomes.  primSize *)
(* is SIZE, primLast the latest outcome, primSteps the number of bytes.    *)
(***************************************************************************)
VARIABLES primSize, primA, primB, primLast, primSteps

primaryVars == <<primSize, primA, primB, primLast, primSteps>>

(***************************************************************************)
(* One literal byte (codec/encoder.rs byte, codec/decoder.rs byte):        *)
(* litCtx and litByte are the arguments of the encoder's byte(); litHigh,  *)
(* litLow are the decoder's locals high and low, litStep the number of     *)
(* bits it has read and litIndices the context indices it has queried.     *)
(***************************************************************************)
VARIABLES litCtx, litByte, litHigh, litLow, litStep, litIndices

literalVars == <<litCtx, litByte, litHigh, litLow, litStep, litIndices>>

(***************************************************************************)
(* The codec run sequentially: cdcInput is the input consumed so far,      *)
(* cdcPrimary the primary context of run_primary_context_encoder,          *)
(* cdcTranscript its outcomes, cdcSec the SecondaryContextEncoder,         *)
(* cdcStream the byte stream handed to the decoder, cdcDec the             *)
(* CombinedContextDecoder, cdcOut the bytes it has passed to output(),     *)
(* cdcLast the result of its latest loop iteration and cdcPhase the stage  *)
(* that runs: "encode", "decode" or "done".                                *)
(***************************************************************************)
VARIABLES cdcInput, cdcPhase, cdcPrimary, cdcTranscript, cdcSec, cdcStream, cdcDec,
          cdcOut, cdcLast

codecVars ==
    <<cdcInput, cdcPhase, cdcPrimary, cdcTranscript, cdcSec, cdcStream, cdcDec, cdcOut,
      cdcLast>>

(***************************************************************************)
(* encode (codec/encoder.rs) as its four threads over three pipes:         *)
(* plInput is what the reader's source holds and plRead how much of it has *)
(* been read, plStage where each thread stands ("run", "eof" once it has   *)
(* seen the end of its input, "close" inside the close() of its output     *)
(* pipe, "returned" with Ok, "failed" with Err), plPrim the primary        *)
(* context, plSec the SecondaryContextEncoder, plTodo what the iteration a *)
(* thread is in still has to pass to output(), plSink the bytes written to *)
(* the writer.                                                             *)
(***************************************************************************)
VARIABLES plInput, plRead, plStage, plPrim, plSec, plTodo, plSink

pipelineVars == <<plInput, plRead, plStage, plPrim, plSec, plTodo, plSink>>

(***************************************************************************)
(* encode's closure and the scope around it: plFaults is the number of     *)
(* failures (an I/O error of the source or the sink, a panic of a thread)  *)
(* that may still happen, plJoin the number of handles the closure has     *)
(* joined, plClosure the value the closure returned ("none" before), and   *)
(* plReturn what the call of encode ended with ("none" before).  Both are   *)
(* records [stage, kind]: kind is "none", "Ok", the kind of the error of   *)
(* `stage`, or for plReturn "unwind" when the call ends in a panic.        *)
(***************************************************************************)
VARIABLES plFaults, plJoin, plClosure, plReturn

joinVars == <<plFaults, plJoin, plClosure, plReturn>>

(***************************************************************************)
(* The combined decoder thread of decode: plDec is its                     *)
(* CombinedContextDecoder ([started, cd]: started is FALSE until           *)
(* BitDecoder::new has read its four bytes), plTaken the bytes its         *)
(* BitDecoder has taken from the input pipe, plEnded whether the input     *)
(* pipe has returned None to it.                                           *)
(***************************************************************************)
VARIABLES plDec, plTaken, plEnded

decoderVars == <<plDec, plTaken, plEnded>>

(***************************************************************************)
(* A producer thread and run_file_writer on one pipe: wrSink is what the   *)
(* sink has accepted, wrShort whether some write() accepted less than it   *)
(* was offered, wrStage the position of run_file_writer, wrPending the     *)
(* producer's call that is inside sync(), wrResults what the producer's    *)
(* calls returned (with `gone`: the consumer endpoint was dropped when the *)
(* call was made).                                                         *)
(***************************************************************************)
VARIABLES wrSink, wrShort, wrStage, wrPending, wrResults

writerVars == <<wrSink, wrShort, wrStage, wrPending, wrResults>>

(***************************************************************************)
(* A BitEncoder and a BitDecoder on the same predictions: rcPhase is       *)
(* "encode" while bit() is called, "decode" once close() has run; rcEnc is *)
(* the BitEncoder [low, high, out], rcPairs what it was called with and    *)
(* its registers after each call, rcDec the BitDecoder on the bytes of     *)
(* rcEnc.out, rcDecoded the bits it has decoded and its registers after    *)
(* each.                                                                   *)
(***************************************************************************)
VARIABLES rcPhase, rcEnc, rcPairs, rcDec, rcDecoded

rangeVars == <<rcPhase, rcEnc, rcPairs, rcDec, rcDecoded>>

(***************************************************************************)
(* One snapshot of the primary context and the messages made from it:      *)
(* brInfo is the PrimaryContextInfo that BridgedContextInfo::new is given, *)
(* brArgs the arguments of the PackedMessage::bit / byte calls that were   *)
(* made directly, brSent the PackedMessages passed on, brGot what get()    *)
(* returned for them, and brIndices the context indices of the self.bit()  *)
(* calls the secondary encoder made for them.                              *)
(***************************************************************************)
VARIABLES brInfo, brArgs, brSent, brGot, brIndices

bridgeVars == <<brInfo, brArgs, brSent, brGot, brIndices>>

(***************************************************************************)
(* Two primary contexts fed different bytes and then the same bytes:       *)
(* hshA and hshB are the contexts, hshPre the bytes each was fed alone,    *)
(* hshTail the bytes both were fed since, and hshTrail their hash values   *)
(* after each of those.                                                    *)
(***************************************************************************)
VARIABLES hshA, hshB, hshPre, hshTail, hshTrail

hashVars == <<hshA, hshB, hshPre, hshTail, hshTrail>>

vars ==
    <<coderVars, pipeVars, primaryVars, literalVars, codecVars, pipelineVars, joinVars,
      decoderVars, writerVars, rangeVars, bridgeVars, hashVars>>

\* what the actions of one specification leave alone
notCoder == <<pipeVars, primaryVars, literalVars, codecVars, pipelineVars, joinVars, decoderVars, writerVars,
      rangeVars, bridgeVars, hashVars>>

notPipe == <<coderVars, primaryVars, literalVars, codecVars, pipelineVars, joinVars, decoderVars, writerVars,
      rangeVars, bridgeVars, hashVars>>

notPrimary == <<coderVars, pipeVars, literalVars, codecVars, pipelineVars, joinVars, decoderVars, writerVars,
      rangeVars, bridgeVars, hashVars>>

notLiteral == <<coderVars, pipeVars, primaryVars, codecVars, pipelineVars, joinVars, decoderVars, writerVars,
      rangeVars, bridgeVars, hashVars>>

notCodec == <<coderVars, pipeVars, primaryVars, literalVars, pipelineVars, joinVars, decoderVars, writerVars,
      rangeVars, bridgeVars, hashVars>>

\* the pipeline uses pipes
notPipeline ==
    <<coderVars, sent, got, primaryVars, literalVars, codecVars, joinVars, decoderVars,
      writerVars, rangeVars, bridgeVars, hashVars>>

\* what the threads of a pipeline, its failures and its joins leave alone
notStages == <<coderVars, sent, got, primaryVars, literalVars, codecVars, writerVars,
      rangeVars, bridgeVars, hashVars>>

notWriter ==
    <<coderVars, got, primaryVars, literalVars, codecVars, pipelineVars, joinVars, decoderVars,
      rangeVars, bridgeVars, hashVars>>

notRange ==
    <<coderVars, pipeVars, primaryVars, literalVars, codecVars, pipelineVars, joinVars,
      decoderVars, writerVars, bridgeVars, hashVars>>

notBridge ==
    <<coderVars, pipeVars, primaryVars, literalVars, codecVars, pipelineVars, joinVars,
      decoderVars, writerVars, rangeVars, hashVars>>

notHash ==
    <<coderVars, pipeVars, primaryVars, literalVars, codecVars, pipelineVars, joinVars,
      decoderVars, writerVars, rangeVars, bridgeVars>>

(***************************************************************************)
(* BitEncoder.                                                             *)
(***************************************************************************)
\* BitEncoder::new
BitEncoderNew == [low |-> U32Zero, high |-> U32Max]

\* the do-while loop of BitEncoder::flush; c = [low, high, out]
RECURSIVE EncFlush(_)
EncFlush(c) ==
    Only({LET out1 == Append(c0.out, TopByte(c0.low))
              low1 == U32Shl8(c0.low)
              high1 == U32Shl8Or(c0.high, 255)
              c1 == [low |-> low1, high |-> high1, out |-> out1]
          IN  IF SameTopByte(high1, low1) THEN EncFlush(c1) ELSE c1 :
          c0 \in {c}})

\* mutant of EncMiddle: delta is taken from high, not from high - low
EncMiddleNoSub(lo, hi, prediction) ==
    Only({[delta |-> delta,
           middle |-> U32Add(lo, delta),
           carry |-> U32AddCarry(lo, delta)] :
          delta \in {U32MulHigh(hi, prediction)}})

\* delta and middle of BitEncoder::bit; carry is the overflow of low + delta
EncMiddle(lo, hi, prediction) ==
    Only({[delta |-> delta,
           middle |-> U32Add(lo, delta),
           carry |-> U32AddCarry(lo, delta)] :
          delta \in {U32MulHigh(U32Sub(hi, lo), prediction)}})

\* mutant of EncLimit: middle is written for either bit
EncLimitNoIncrement(middle, bit) == middle

\* the register written by BitEncoder::bit: middle + (bit ^ 1), wrapping
EncLimit(middle, bit) == U32Add(middle, <<0, 1 - bit>>)

\* BitEncoder::bit on c = [low, high, out]
EncBit(c, prediction, bit) ==
    Only({LET lim == EncLimit(m.middle, bit)
              low1 == IF bit = 0 THEN lim ELSE c0.low
              high1 == IF bit = 0 THEN c0.high ELSE lim
              c1 == [low |-> low1, high |-> high1, out |-> c0.out]
          IN  IF SameTopByte(high1, low1) THEN EncFlush(c1) ELSE c1 :
          c0 \in {c}, m \in {EncMiddle(c.low, c.high, prediction)}})

\* BitEncoder::close: the byte written before the pipe is closed
EncCloseByte(lo) == TopByte(lo)

(***************************************************************************)
(* The primary context (symbol ranking).                                   *)
(*                                                                         *)
(* A ByteHistory is the packed u32 [third:8][second:8][first:8][state:8],  *)
(* kept here as a record of its four byte fields; the masks and shifts of  *)
(* matching() / matched() are written as what they do to the fields.       *)
(***************************************************************************)
MatchFirst == "MatchFirst"

MatchSecond == "MatchSecond"

MatchThird == "MatchThird"

NoMatch == "NoMatch"

ByteMatched == {MatchFirst, MatchSecond, MatchThird, NoMatch}

\* primary_context STATE_TABLE (state_table.inc): a history state table with
\* first_count, next_if_first, next_if_second, next_if_third, next_if_miss.
\* The state counts the first-byte matches; its count saturates.
HistoryStateTable ==
    <<[first_count |-> 0,   next_if_first |-> 1, next_if_second |-> 0, next_if_third |-> 0, next_if_miss |-> 0],
      [first_count |-> 1,   next_if_first |-> 2, next_if_second |-> 0, next_if_third |-> 0, next_if_miss |-> 0],
      [first_count |-> 3,   next_if_first |-> 3, next_if_second |-> 1, next_if_third |-> 0, next_if_miss |-> 0],
      [first_count |-> 4,   next_if_first |-> 4, next_if_second |-> 2, next_if_third |-> 1, next_if_miss |-> 0],
      [first_count |-> 7,   next_if_first |-> 5, next_if_second |-> 2, next_if_third |-> 1, next_if_miss |-> 1],
      [first_count |-> 67,  next_if_first |-> 6, next_if_second |-> 3, next_if_third |-> 2, next_if_miss |-> 1],
      [first_count |-> 68,  next_if_first |-> 7, next_if_second |-> 4, next_if_third |-> 2, next_if_miss |-> 1],
      [first_count |-> 255, next_if_first |-> 7, next_if_second |-> 5, next_if_third |-> 3, next_if_miss |-> 2]>>

\* ByteHistory::state: STATE_TABLE[self.0 & 0xFF]
HistoryState(cell) == HistoryStateTable[cell.state + 1]

\* HistoryState::next
HistoryNext(hs, matched) ==
    CASE matched = MatchFirst -> hs.next_if_first
      [] matched = MatchSecond -> hs.next_if_second
      [] matched = MatchThird -> hs.next_if_third
      [] OTHER -> hs.next_if_miss

\* ByteHistory::match_count
CellMatchCount(cell) == HistoryState(cell).first_count

\* ByteHistory::default: the zero u32
CellDefault == [state |-> 0, first |-> 0, second |-> 0, third |-> 0]

\* mutant of CellClassify: the third byte is compared before the second
CellClassifyThirdBeforeSecond(cell, next_byte) ==
    IF cell.first = next_byte THEN MatchFirst
    ELSE IF cell.third = next_byte THEN MatchThird
    ELSE IF cell.second = next_byte THEN MatchSecond
    ELSE NoMatch

\* the classification of ByteHistory::matching: the first hit in the order
\* first, second, third
CellClassify(cell, next_byte) ==
    IF cell.first = next_byte THEN MatchFirst
    ELSE IF cell.second = next_byte THEN MatchSecond
    ELSE IF cell.third = next_byte THEN MatchThird
    ELSE NoMatch

\* ByteHistory::matching: the outcome and the updated cell
CellMatching(cell, next_byte) ==
    LET matched == CellClassify(cell, next_byte)
        next == HistoryNext(HistoryState(cell), matched)
        updated ==
            CASE matched = MatchFirst ->
                   \* byte_history & 0xFF_FF_FF_00
                   [state |-> next, first |-> cell.first, second |-> cell.second,
                    third |-> cell.third]
              [] matched = MatchSecond ->
                   \* (bh & 0xFF_00_00_00) | (((bh & 0x00_00_FF_00) | next_byte) << 8)
                   [state |-> next, first |-> next_byte, second |-> cell.first,
                    third |-> cell.third]
              [] matched = MatchThird ->
                   \* ((bh & 0x00_FF_FF_00) | next_byte) << 8
                   [state |-> next, first |-> next_byte, second |-> cell.first,
                    third |-> cell.second]
              [] OTHER ->
                   \* ((bh & 0x00_FF_FF_00) | next_byte) << 8
                   [state |-> next, first |-> next_byte, second |-> cell.first,
                    third |-> cell.second]
    IN  [matched |-> matched, cell |-> updated]

\* mutant of CellMatched: MatchSecond rotates the cell as MatchThird does
CellMatchedRotates(cell, next_byte, matched) ==
    LET next == HistoryNext(HistoryState(cell), matched)
    IN  CASE matched = MatchFirst ->
               [state |-> next, first |-> cell.first, second |-> cell.second,
                third |-> cell.third]
          [] OTHER ->
               [state |-> next, first |-> next_byte, second |-> cell.first,
                third |-> cell.second]

\* ByteHistory::matched
CellMatched(cell, next_byte, matched) ==
    LET next == HistoryNext(HistoryState(cell), matched)
    IN  CASE matched = MatchFirst ->
               [state |-> next, first |-> cell.first, second |-> cell.second,
                third |-> cell.third]
          [] matched = MatchSecond ->
               [state |-> next, first |-> next_byte, second |-> cell.first,
                third |-> cell.third]
          [] matched = MatchThird ->
               [state |-> next, first |-> next_byte, second |-> cell.first,
                third |-> cell.second]
          [] OTHER ->
               [state |-> next, first |-> next_byte, second |-> cell.first,
                third |-> cell.second]

\* a table of cells, all zero until written: f[i], 0-initialised
Get(f, i, default) == IF i \in DOMAIN f THEN f[i] ELSE default

Put(f, i, v) == [j \in (DOMAIN f) \cup {i} |-> IF j = i THEN v ELSE f[j]]

\* PrimaryContext::new
PrimaryNew == [previous_byte |-> 0, hash_value |-> 0, context |-> <<>>]

\* the current cell context[hash_value]
PrimaryCell(pc) == Get(pc.context, pc.hash_value, CellDefault)

\* PrimaryContext::get_info
PrimaryGetInfo(pc) ==
    LET current_history == PrimaryCell(pc)
    IN  [previous_byte |-> pc.previous_byte,
         first_byte |-> current_history.first,
         second_byte |-> current_history.second,
         third_byte |-> current_history.third,
         hash_value |-> pc.hash_value,
         match_count |-> CellMatchCount(current_history)]

\* mutant of NextHash: the multiplier is 5 << 4
NextHashTimes80(SIZE, hash_value, next_byte) ==
    ((hash_value % 524288) * (5 * 16) + next_byte + 1) % SIZE

\* PrimaryContext::next_hash: (hash_value * (5 << 5) + next_byte + 1) % SIZE.
\* SIZE is a power of two that divides 2^24, so hash_value may be reduced
\* modulo 2^19 before the multiplication (160 * 2^19 = 5 * 2^24); this keeps
\* the product inside the model checker's integers.
NextHash(SIZE, hash_value, next_byte) ==
    ((hash_value % 524288) * (5 * 32) + next_byte + 1) % SIZE

\* mutant of PrimaryMatching: the hash value is not advanced
PrimaryMatchingKeepsHash(SIZE, pc, next_byte) ==
    LET r == CellMatching(PrimaryCell(pc), next_byte)
    IN  [matched |-> r.matched,
         pc |-> [previous_byte |-> next_byte,
                 hash_value |-> pc.hash_value,
                 context |-> Put(pc.context, pc.hash_value, r.cell)]]

\* PrimaryContext::matching: the outcome and the context after the call
PrimaryMatching(SIZE, pc, next_byte) ==
    LET r == CellMatching(PrimaryCell(pc), next_byte)
    IN  [matched |-> r.matched,
         pc |-> [previous_byte |-> next_byte,
                 hash_value |-> NextHash(SIZE, pc.hash_value, next_byte),
                 context |-> Put(pc.context, pc.hash_value, r.cell)]]

\* PrimaryContext::matched
PrimaryMatched(SIZE, pc, next_byte, matched) ==
    [previous_byte |-> next_byte,
     hash_value |-> NextHash(SIZE, pc.hash_value, next_byte),
     context |-> Put(pc.context, pc.hash_value,
                     CellMatched(PrimaryCell(pc), next_byte, matched))]

\* PRIMARY_CONTEXT_SIZE = 1 << 24
PRIMARY_CONTEXT_SIZE == 16777216

(***************************************************************************)
(* The secondary context.                                                  *)
(***************************************************************************)
\* secondary_context STATE_TABLE (state_table.inc): StateInfo::new(prediction,
\* next_if_zero, next_if_one) per bit state; prediction is the probability
\* of a 1 as a fraction of 2^32.  State 0 is the state of a fresh cell.  Five
\* states stand for the table: after a 0 the prediction falls (1/3, 1/8),
\* after a 1 it rises (2/3), and a run of 1 bits ends in state 4, whose
\* prediction of 1/2 gives the coder's registers a short period.
SecondaryStateTable ==
    <<[prediction |-> <<32768, 0>>,     next_if_zero |-> 1, next_if_one |-> 2],
      [prediction |-> <<21845, 21845>>, next_if_zero |-> 3, next_if_one |-> 0],
      [prediction |-> <<43690, 43690>>, next_if_zero |-> 0, next_if_one |-> 4],
      [prediction |-> <<8192, 0>>,      next_if_zero |-> 3, next_if_one |-> 1],
      [prediction |-> <<32768, 0>>,     next_if_zero |-> 2, next_if_one |-> 4]>>

\* StateInfo::next
StateInfoNext(info, bit) == IF bit = 1 THEN info.next_if_one ELSE info.next_if_zero

\* BitState::get_info: STATE_TABLE[self.0]
BitStateGetInfo(state) == SecondaryStateTable[state + 1]

\* BitState::update: self.0 = current_state.next(bit)
BitStateUpdate(current_state, bit) == StateInfoNext(current_state, bit)

\* SecondaryContext::new: every BitState is 0
SecondaryNew == <<>>

\* SecondaryContext::get_info
SecondaryGetInfo(sec, context_index) == BitStateGetInfo(Get(sec, context_index, 0))

\* SecondaryContext::update
SecondaryUpdate(sec, current_state, context_index, bit) ==
    Put(sec, context_index, BitStateUpdate(current_state, bit))

(***************************************************************************)
(* The bridged context indices (codec/bridged.rs).                         *)
(***************************************************************************)
\* SECONDARY_CONTEXT_SIZE = 0x4000 * 256 + (1024 + 32) * 768
SECONDARY_CONTEXT_SIZE == 16384 * 256 + (1024 + 32) * 768

\* mutant of BitContext: match counts above 67 are not capped at 31
BitContextNoCap(info) ==
    LET match_count == info.match_count
    IN  16384 * 256
        + (IF match_count < 4
           THEN (info.previous_byte * 4) + match_count
           ELSE 1024 + ((match_count - 4) \div 2)) * 768

\* BridgedContextInfo::new: bit_context
BitContext(info) ==
    LET match_count == info.match_count
    IN  16384 * 256
        + (IF match_count < 4
           THEN (info.previous_byte * 4) + match_count
           ELSE 1024 + (IF match_count - 4 <= 63
                        THEN (match_count - 4) \div 2
                        ELSE 31)) * 768

\* BridgedContextInfo::new: literal_context = (hash_value & 0x3FFF) * 256
LiteralContext(info) == (info.hash_value % 16384) * 256

\* BridgedContextInfo::first_context
FirstContext(info) == BitContext(info) + info.first_byte

\* BridgedContextInfo::second_context
SecondContext(info) ==
    BitContext(info) + 256 + ((info.second_byte + info.third_byte) % 256)

\* BridgedContextInfo::third_context; wrapping_sub followed by & 0xFF
ThirdContext(info) ==
    BitContext(info) + 512 + ((info.second_byte * 2 - info.third_byte) % 256)

(***************************************************************************)
(* Literal bytes: two nibbles, each coded along a binary tree.             *)
(***************************************************************************)
\* (x >> n) & 1
BitAt(x, n) == (x \div (2 ^ n)) % 2

\* SecondaryContextEncoder::byte: the (context index, bit) pairs of its eight
\* self.bit() calls, in order
EncByteSteps(context_index, byte) ==
    LET hi == (byte \div 16) + 16
        low_context == context_index + 15 * (hi - 15)
        lo == (byte % 16) + 16
    IN  <<<<context_index + 1, BitAt(hi, 3)>>,
          <<context_index + (hi \div 8), BitAt(hi, 2)>>,
          <<context_index + (hi \div 4), BitAt(hi, 1)>>,
          <<context_index + (hi \div 2), BitAt(hi, 0)>>,
          <<low_context + 1, BitAt(lo, 3)>>,
          <<low_context + (lo \div 8), BitAt(lo, 2)>>,
          <<low_context + (lo \div 4), BitAt(lo, 1)>>,
          <<low_context + (lo \div 2), BitAt(lo, 0)>>>>

\* CombinedContextDecoder::byte: its locals before the first bit
DecByteStart == [high |-> 1, low |-> 1, step |-> 0]

\* mutant of DecByteIndex: the low-nibble blocks are 14 contexts apart
DecByteIndexOverlapping(context_index, d) ==
    IF d.step < 4
    THEN context_index + d.high
    ELSE (context_index + 14 * (d.high - 15)) + d.low

\* CombinedContextDecoder::byte: the context index of its next self.bit() call
DecByteIndex(context_index, d) ==
    IF d.step < 4
    THEN context_index + d.high
    ELSE (context_index + 15 * (d.high - 15)) + d.low

\* mutant of DecByteFeed: the low nibble is shifted in below the high nibble
\* without its own tree
DecByteFeedOneTree(d, bit) ==
    [high |-> d.high + d.high + bit, low |-> d.low, step |-> d.step + 1]

\* CombinedContextDecoder::byte: high += high + bit, then low += low + bit
DecByteFeed(d, bit) ==
    IF d.step < 4
    THEN [high |-> d.high + d.high + bit, low |-> d.low, step |-> d.step + 1]
    ELSE [high |-> d.high, low |-> d.low + d.low + bit, step |-> d.step + 1]

\* CombinedContextDecoder::byte: ((high - 16) << 4) | (low - 16)
DecByteResult(d) == (d.high - 16) * 16 + (d.low - 16)

(***************************************************************************)
(* PackedMessage (codec/encoder.rs): a Message packed into a u32, kept as  *)
(* its two 16-bit halves <<hi, lo>>.                                       *)
(***************************************************************************)
\* a | b on two numbers below 2^n
RECURSIVE BitOr(_, _, _)
BitOr(a, b, n) ==
    IF n = 0 THEN 0
    ELSE (IF a % 2 = 1 \/ b % 2 = 1 THEN 1 ELSE 0) + 2 * BitOr(a \div 2, b \div 2, n - 1)

\* PackedMessage::bit: u32::from(bit) << 30 | context as u32
PackedBit(context, bit) ==
    <<BitOr(bit * 16384, (context \div Half) % Half, 16), context % Half>>

\* PackedMessage::byte: 0x80000000 | context as u32 | u32::from(byte)
PackedByte(context, byte) ==
    <<BitOr(32768, (context \div Half) % Half, 16), BitOr(context % Half, byte, 16)>>

\* mutant of PackedGet: the context of a bit message is taken with the mask
\* 0x7FFFFFFF, which keeps the bit
PackedGetKeepsBit(pm) ==
    IF pm[1] < 32768
    THEN [kind |-> "Bit", index |-> (pm[1] % 32768) * Half + pm[2], value |-> pm[1] \div 16384]
    ELSE [kind |-> "Byte", index |-> (pm[1] % 32768) * Half + (pm[2] - (pm[2] % 256)),
          value |-> pm[2] % 256]

\* PackedMessage::get
PackedGet(pm) ==
    IF pm[1] < 32768
    THEN [kind |-> "Bit", index |-> (pm[1] % 16384) * Half + pm[2], value |-> pm[1] \div 16384]
    ELSE [kind |-> "Byte", index |-> (pm[1] % 32768) * Half + (pm[2] - (pm[2] % 256)),
          value |-> pm[2] % 256]

(***************************************************************************)
(* The primary context encoder (codec/encoder.rs).                         *)
(***************************************************************************)
\* mutant of PrimaryMessages: the third bit is 1 for MatchSecond and 0 for
\* MatchThird
PrimaryMessagesThirdBit(info, current_byte, matched) ==
    CASE matched = MatchFirst ->
           <<PackedBit(FirstContext(info), 0)>>
      [] matched = NoMatch ->
           <<PackedBit(FirstContext(info), 1),
             PackedBit(SecondContext(info), 0),
             PackedByte(LiteralContext(info), current_byte)>>
      [] matched = MatchSecond ->
           <<PackedBit(FirstContext(info), 1),
             PackedBit(SecondContext(info), 1),
             PackedBit(ThirdContext(info), 1)>>
      [] OTHER ->
           <<PackedBit(FirstContext(info), 1),
             PackedBit(SecondContext(info), 1),
             PackedBit(ThirdContext(info), 0)>>

\* the messages of one iteration of run_primary_context_encoder's loop for
\* the outcome `matched` of matching(current_byte)
PrimaryMessages(info, current_byte, matched) ==
    CASE matched = MatchFirst ->
           <<PackedBit(FirstContext(info), 0)>>
      [] matched = NoMatch ->
           <<PackedBit(FirstContext(info), 1),
             PackedBit(SecondContext(info), 0),
             PackedByte(LiteralContext(info), current_byte)>>
      [] matched = MatchSecond ->
           <<PackedBit(FirstContext(info), 1),
             PackedBit(SecondContext(info), 1),
             PackedBit(ThirdContext(info), 0)>>
      [] OTHER ->
           <<PackedBit(FirstContext(info), 1),
             PackedBit(SecondContext(info), 1),
             PackedBit(ThirdContext(info), 1)>>

\* the messages of the None branch: NoMatch with the literal first_byte
EofMessages(info) ==
    <<PackedBit(FirstContext(info), 1),
      PackedBit(SecondContext(info), 0),
      PackedByte(LiteralContext(info), info.first_byte)>>

\* one iteration of run_primary_context_encoder's loop on what produce()
\* returned: <<>> is None, <<b>> is Some(b)
PrimaryEncoderStep(pc, produced) ==
    LET info == PrimaryGetInfo(pc)
    IN  IF produced = <<>>
        THEN [pc |-> pc, messages |-> EofMessages(info), matched |-> NoMatch,
              literal |-> info.first_byte, first_byte |-> info.first_byte, returned |-> TRUE]
        ELSE LET r == PrimaryMatching(PRIMARY_CONTEXT_SIZE, pc, produced[1])
             IN  [pc |-> r.pc, messages |-> PrimaryMessages(info, produced[1], r.matched),
                  matched |-> r.matched, literal |-> produced[1],
                  first_byte |-> info.first_byte, returned |-> FALSE]

(***************************************************************************)
(* The secondary context encoder (codec/encoder.rs); s = [context, low,    *)
(* high, out] is its SecondaryContext and its BitEncoder.                  *)
(***************************************************************************)
SecondaryEncoderNew ==
    [context |-> SecondaryNew, low |-> BitEncoderNew.low, high |-> BitEncoderNew.high,
     out |-> <<>>]

\* SecondaryContextEncoder::bit: the encoder after the call, and the call as
\* the secondary table sees it (the index, the bit of update(), and the
\* prediction of the state get_info() returned, which goes to the BitEncoder)
SecEncBitCall(s, context_index, bit) ==
    Only({Only({Only({[s |-> [context |-> SecondaryUpdate(s0.context, current_state,
                                                          context_index, bit),
                              low |-> c.low, high |-> c.high, out |-> c.out],
                       call |-> [index |-> context_index, bit |-> bit,
                                 prediction |-> current_state.prediction]] :
                      c \in {EncBit([low |-> s0.low, high |-> s0.high, out |-> s0.out],
                                    current_state.prediction, bit)}}) :
                current_state \in {SecondaryGetInfo(s0.context, context_index)}}) :
          s0 \in {s}})

\* SecondaryContextEncoder::bit
SecEncBit(s, context_index, bit) == SecEncBitCall(s, context_index, bit).s

\* SecondaryContextEncoder::byte: its eight self.bit() calls from the k-th on
RECURSIVE SecEncSteps(_, _, _)
SecEncSteps(s, steps, k) ==
    IF k > Len(steps) THEN s
    ELSE Only({ SecEncSteps(s1, steps, k + 1) :
                s1 \in {SecEncBit(s, steps[k][1], steps[k][2])} })

SecEncByte(s, context_index, byte) == SecEncSteps(s, EncByteSteps(context_index, byte), 1)

\* the Some(message) branch of SecondaryContextEncoder::encode
SecEncMessage(s, pm) ==
    LET message == PackedGet(pm)
    IN  IF message.kind = "Bit"
        THEN SecEncBit(s, message.index, message.value)
        ELSE SecEncByte(s, message.index, message.value)

\* the messages of one primary iteration, in order
RECURSIVE SecEncMessages(_, _, _)
SecEncMessages(s, messages, k) ==
    IF k > Len(messages) THEN s
    ELSE Only({ SecEncMessages(s1, messages, k + 1) :
                s1 \in {SecEncMessage(s, messages[k])} })

\* mutant of SecEncClose: the pipe is closed without the final byte
SecEncCloseNoByte(s) == s

\* the self.bit() calls that a message leads to: <<context_index, bit>> pairs
MessageSteps(pm) ==
    LET message == PackedGet(pm)
    IN  IF message.kind = "Bit"
        THEN <<<<message.index, message.value>>>>
        ELSE EncByteSteps(message.index, message.value)

\* the calls of self.bit() for the steps from the k-th on, in order
RECURSIVE SecEncStepCalls(_, _, _)
SecEncStepCalls(s, steps, k) ==
    IF k > Len(steps) THEN <<>>
    ELSE Only({ <<r.call>> \o SecEncStepCalls(r.s, steps, k + 1) :
                r \in {SecEncBitCall(s, steps[k][1], steps[k][2])} })

\* the calls of self.bit() for the messages from the k-th on, in order
RECURSIVE SecEncCalls(_, _, _)
SecEncCalls(s, messages, k) ==
    IF k > Len(messages) THEN <<>>
    ELSE Only({ Only({ calls \o SecEncCalls(s1, messages, k + 1) :
                       s1 \in {SecEncMessage(s, messages[k])} }) :
                calls \in {SecEncStepCalls(s, MessageSteps(messages[k]), 1)} })

\* mutant of SecEncClose: four more bytes follow the final byte
SecEncClosePadded(s) ==
    [s EXCEPT !.out = Append(s.out, EncCloseByte(s.low)) \o <<0, 0, 0, 0>>]

\* the None branch: BitEncoder::close writes (low >> 24) and closes the pipe
SecEncClose(s) == [s EXCEPT !.out = Append(s.out, EncCloseByte(s.low))]

(***************************************************************************)
(* BitDecoder (secondary_context/decoder.rs); d = [value, low, high, pos]  *)
(* over the byte stream it reads: pos is the number of bytes it has taken  *)
(* from the stream, and a byte missing past the end of the stream is 0.    *)
(***************************************************************************)
\* the next input byte and the position after it
DecInputByte(stream, pos) ==
    IF pos < Len(stream)
    THEN [byte |-> stream[pos + 1], pos |-> pos + 1]
    ELSE [byte |-> 0, pos |-> pos]

\* BitDecoder::new: value is the first four input bytes, big-endian
BitDecoderNew(stream) ==
    LET b1 == DecInputByte(stream, 0)
        b2 == DecInputByte(stream, b1.pos)
        b3 == DecInputByte(stream, b2.pos)
        b4 == DecInputByte(stream, b3.pos)
    IN  [value |-> <<b1.byte * 256 + b2.byte, b3.byte * 256 + b4.byte>>,
         low |-> U32Zero, high |-> U32Max, pos |-> b4.pos]

\* mutant of DecFlushFrom: value is not shifted with low and high
RECURSIVE DecFlushFromKeepsValue(_, _, _)
DecFlushFromKeepsValue(stream, d, n) ==
    Only({LET d1 == [value |-> d0.value,
                     low |-> U32Shl8(d0.low),
                     high |-> U32Shl8Or(d0.high, 255),
                     pos |-> next.pos]
          IN  IF SameTopByte(d1.high, d1.low)
              THEN DecFlushFromKeepsValue(stream, d1, n + 1)
              ELSE [d |-> d1, shifts |-> n + 1] :
          d0 \in {d}, next \in {DecInputByte(stream, d.pos)}})

\* the normalisation loop: as the encoder's, and every byte shifted out of
\* low and high takes one input byte into the low byte of value; n counts
\* the bytes shifted out
RECURSIVE DecFlushFrom(_, _, _)
DecFlushFrom(stream, d, n) ==
    Only({LET d1 == [value |-> U32Shl8Or(d0.value, next.byte),
                     low |-> U32Shl8(d0.low),
                     high |-> U32Shl8Or(d0.high, 255),
                     pos |-> next.pos]
          IN  IF SameTopByte(d1.high, d1.low)
              THEN DecFlushFrom(stream, d1, n + 1)
              ELSE [d |-> d1, shifts |-> n + 1] :
          d0 \in {d}, next \in {DecInputByte(stream, d.pos)}})

DecFlush(stream, d) == DecFlushFrom(stream, d, 0).d

\* BitDecoder::bit: the bit is 1 when value <= middle; shifts is the number
\* of bytes its normalisation shifted out
DecBit(stream, d, prediction) ==
    Only({LET bit == IF U32Le(d0.value, m.middle) THEN 1 ELSE 0
              d1 == IF bit = 1
                    THEN [d0 EXCEPT !.high = m.middle]
                    ELSE [d0 EXCEPT !.low = U32Add(m.middle, <<0, 1>>)]
          IN  IF SameTopByte(d1.high, d1.low)
              THEN Only({[bit |-> bit, d |-> f.d, shifts |-> f.shifts] :
                         f \in {DecFlushFrom(stream, d1, 0)}})
              ELSE [bit |-> bit, d |-> d1, shifts |-> 0] :
          d0 \in {d}, m \in {EncMiddle(d.low, d.high, prediction)}})

(***************************************************************************)
(* CombinedContextDecoder (codec/decoder.rs); cd = [primary_context,       *)
(* secondary_context, decoder].                                            *)
(***************************************************************************)
CombinedContextDecoderNew(stream) ==
    [primary_context |-> PrimaryNew,
     secondary_context |-> SecondaryNew,
     decoder |-> BitDecoderNew(stream)]

\* CombinedContextDecoder::bit
CdBit(stream, cd, context_index) ==
    Only({Only({[bit |-> r.bit,
                 call |-> [index |-> context_index, bit |-> r.bit,
                           prediction |-> current_state.prediction],
                 cd |-> [cd0 EXCEPT !.secondary_context =
                                        SecondaryUpdate(cd0.secondary_context, current_state,
                                                        context_index, r.bit),
                                    !.decoder = r.d]] :
                r \in {DecBit(stream, cd0.decoder, current_state.prediction)}}) :
          cd0 \in {cd},
          current_state \in {SecondaryGetInfo(cd.secondary_context, context_index)}})

\* CombinedContextDecoder::byte from the locals b on
RECURSIVE CdByteFrom(_, _, _, _)
CdByteFrom(stream, cd, context_index, b) ==
    IF b.step = 8 THEN [byte |-> DecByteResult(b), cd |-> cd]
    ELSE Only({Only({CdByteFrom(stream, r.cd, context_index, b1) :
                     b1 \in {DecByteFeed(b, r.bit)}}) :
               r \in {CdBit(stream, cd, DecByteIndex(context_index, b))}})

CdByte(stream, cd, context_index) == CdByteFrom(stream, cd, context_index, DecByteStart)

\* one iteration of the loop of CombinedContextDecoder::decode.  eof: the
\* iteration returned Ok(()) at a NoMatch whose literal is first_byte;
\* otherwise next_byte went to output.output() and matched() was applied.
CdDecodeStep(stream, cd) ==
    LET info == PrimaryGetInfo(cd.primary_context)
        done(c, next_byte, matched) ==
            [eof |-> FALSE, next_byte |-> next_byte, matched |-> matched,
             first_byte |-> info.first_byte,
             cd |-> [c EXCEPT !.primary_context =
                                  PrimaryMatched(PRIMARY_CONTEXT_SIZE, c.primary_context,
                                                 next_byte, matched)]]
        literal(c) ==
            Only({IF lit.byte = info.first_byte
                  THEN [eof |-> TRUE, next_byte |-> lit.byte, matched |-> NoMatch,
                        first_byte |-> info.first_byte, cd |-> lit.cd]
                  ELSE done(lit.cd, lit.byte, NoMatch) :
                  lit \in {CdByte(stream, c, LiteralContext(info))}})
        third(c) ==
            Only({IF r3.bit = 0
                  THEN done(r3.cd, info.second_byte, MatchSecond)
                  ELSE done(r3.cd, info.third_byte, MatchThird) :
                  r3 \in {CdBit(stream, c, ThirdContext(info))}})
        second(c) ==
            Only({IF r2.bit = 0 THEN literal(r2.cd) ELSE third(r2.cd) :
                  r2 \in {CdBit(stream, c, SecondContext(info))}})
    IN  Only({IF r1.bit = 0
              THEN done(r1.cd, info.first_byte, MatchFirst)
              ELSE second(r1.cd) :
              r1 \in {CdBit(stream, cd, FirstContext(info))}})

\* CombinedContextDecoder::byte: the calls of self.bit() from the locals b on
RECURSIVE CdByteCalls(_, _, _, _)
CdByteCalls(stream, cd, context_index, b) ==
    IF b.step = 8 THEN <<>>
    ELSE Only({Only({<<r.call>> \o CdByteCalls(stream, r.cd, context_index, b1) :
                     b1 \in {DecByteFeed(b, r.bit)}}) :
               r \in {CdBit(stream, cd, DecByteIndex(context_index, b))}})

\* the calls of self.bit() in one iteration of the loop of decode, in order
CdStepCalls(stream, cd) ==
    LET info == PrimaryGetInfo(cd.primary_context)
        third(c) == Only({<<r3.call>> : r3 \in {CdBit(stream, c, ThirdContext(info))}})
        second(c) ==
            Only({<<r2.call>> \o (IF r2.bit = 0
                                  THEN CdByteCalls(stream, r2.cd, LiteralContext(info),
                                                   DecByteStart)
                                  ELSE third(r2.cd)) :
                  r2 \in {CdBit(stream, c, SecondContext(info))}})
    IN  Only({<<r1.call>> \o (IF r1.bit = 0 THEN <<>> ELSE second(r1.cd)) :
              r1 \in {CdBit(stream, cd, FirstContext(info))}})

(***************************************************************************)
(* The buffered pipe.                                                      *)
(*                                                                         *)
(* A buffer is named by its id (1 or 2); None is Option::None.  An         *)
(* endpoint's pc says where its thread stands inside sync(): "run" (not in *)
(* sync), "send" / "recv" for the producer, "send" for the consumer that   *)
(* has received and still returns the old buffer.  A blocking send or recv *)
(* is an action that is not enabled.                                       *)
(***************************************************************************)
None == 0

\* Buffer::new
BufferNew(SIZE) == [k \in 1 .. SIZE |-> 0]

\* pipe()
PipeNew(SIZE) ==
    [size |-> SIZE,
     out |-> [buffer |-> 1, index |-> 0, held |-> None, pc |-> "run",
              closing |-> FALSE, alive |-> TRUE],
     inp |-> [buffer |-> 2, index |-> 0, length |-> 0, held |-> None, pc |-> "run",
              alive |-> TRUE],
     fwd |-> <<>>,
     back |-> <<>>,
     mem |-> [b \in 1 .. 2 |-> BufferNew(SIZE)]]

\* BufferedOutputPipe::sync up to its send: the buffer is taken
OutSyncStart(p, closing) ==
    [p EXCEPT !.out.held = p.out.buffer, !.out.buffer = None,
              !.out.pc = "send", !.out.closing = closing]

\* output() on an endpoint whose buffer is gone returns Err("Broken pipe!")
OutBroken(p) == p.out.buffer = None

\* BufferedOutputPipe::output up to the sync it may need
OutOutput(p, value) ==
    LET b == p.out.buffer
        index == p.out.index + 1
        p1 == [p EXCEPT !.mem[b][p.out.index + 1] = value, !.out.index = index]
    IN  IF index = p.size THEN OutSyncStart(p1, FALSE) ELSE p1

\* mutant of OutReceiveFrom: reader.read() stores at the start of the buffer
OutReceiveFromStart(p, data) ==
    LET b == p.out.buffer
        index == p.out.index + Len(data)
        p1 == [p EXCEPT !.mem[b] = [k \in 1 .. p.size |->
                                       IF k <= Len(data) THEN data[k] ELSE p.mem[b][k]],
                        !.out.index = index]
    IN  IF index = p.size THEN OutSyncStart(p1, FALSE) ELSE p1

\* BufferedOutputPipe::receive_from up to the sync it may need; data is what
\* reader.read() stored in buffer[index..SIZE]
OutReceiveFrom(p, data) ==
    LET b == p.out.buffer
        index == p.out.index + Len(data)
        p1 == [p EXCEPT !.mem[b] = [k \in 1 .. p.size |->
                                       IF k > p.out.index /\ k <= index
                                       THEN data[k - p.out.index] ELSE p.mem[b][k]],
                        !.out.index = index]
    IN  IF index = p.size THEN OutSyncStart(p1, FALSE) ELSE p1

\* mutant of OutSend: the whole buffer is announced, not its first index elements
OutSendWholeBuffer(p) ==
    IF ~p.inp.alive
    THEN [p EXCEPT !.out.held = None, !.out.pc = "err",
                   !.out.alive = ~p.out.closing]
    ELSE [p EXCEPT !.fwd = Append(p.fwd, [buffer |-> p.out.held, length |-> p.size]),
                   !.out.held = None, !.out.pc = "recv"]

\* mutant of OutSend: the endpoint keeps the buffer it has sent
OutSendKeepsBuffer(p) ==
    IF ~p.inp.alive
    THEN [p EXCEPT !.out.held = None, !.out.pc = "err",
                   !.out.alive = ~p.out.closing]
    ELSE [p EXCEPT !.fwd = Append(p.fwd, [buffer |-> p.out.held, length |-> p.out.index]),
                   !.out.buffer = p.out.held, !.out.held = None, !.out.pc = "recv"]

\* self.sender.send((buffer, self.index)) of BufferedOutputPipe::sync
OutSendEnabled(p) == p.out.pc = "send" /\ (~p.inp.alive \/ Len(p.fwd) < 1)

OutSend(p) ==
    IF ~p.inp.alive
    THEN [p EXCEPT !.out.held = None, !.out.pc = "err",
                   !.out.alive = ~p.out.closing]
    ELSE [p EXCEPT !.fwd = Append(p.fwd, [buffer |-> p.out.held, length |-> p.out.index]),
                   !.out.held = None, !.out.pc = "recv"]

\* self.receiver.recv() of BufferedOutputPipe::sync, and the rest of sync
OutRecvEnabled(p) == p.out.pc = "recv" /\ (Len(p.back) > 0 \/ ~p.inp.alive)

OutRecv(p) ==
    IF Len(p.back) > 0
    THEN [p EXCEPT !.out.buffer = Head(p.back), !.out.index = 0,
                   !.back = Tail(p.back),
                   !.out.pc = IF p.out.closing THEN "closed" ELSE "run",
                   !.out.alive = ~p.out.closing]
    ELSE [p EXCEPT !.out.pc = "err", !.out.alive = ~p.out.closing]

\* mutant of OutClose: the buffer is sent even when it is empty
OutCloseSendsEmpty(p) ==
    IF p.out.buffer # None
    THEN OutSyncStart(p, TRUE)
    ELSE [p EXCEPT !.out.pc = "closed", !.out.alive = FALSE]

\* BufferedOutputPipe::close up to the sync it may need; close consumes the
\* endpoint, which is dropped when close returns
OutClose(p) ==
    IF p.out.buffer # None /\ p.out.index > 0
    THEN OutSyncStart(p, TRUE)
    ELSE [p EXCEPT !.out.pc = "closed", !.out.alive = FALSE]

\* mutant of OutDrop: a dropped endpoint sends the buffer it was filling
OutDropFlushes(p) ==
    IF p.out.pc = "run" /\ p.out.buffer # None /\ p.out.index > 0 /\ p.fwd = <<>>
    THEN [p EXCEPT !.fwd = <<[buffer |-> p.out.buffer, length |-> p.out.index]>>,
                   !.out.buffer = None, !.out.alive = FALSE]
    ELSE [p EXCEPT !.out.alive = FALSE]

\* the producer endpoint goes out of scope
OutDrop(p) == [p EXCEPT !.out.alive = FALSE]

\* produce() / transfer_to() enter BufferedInputPipe::sync
InpNeedsSync(p) == p.inp.buffer # None /\ p.inp.index = p.inp.length

\* self.receiver.recv() of BufferedInputPipe::sync: blocks while the forward
\* channel is empty and the producer lives
InpRecvEnabled(p) ==
    p.inp.pc = "run" /\ InpNeedsSync(p) /\ (Len(p.fwd) > 0 \/ ~p.out.alive)

\* mutant of InpRecv: the received buffer is left in the forward channel
InpRecvLeavesInChannel(p) ==
    IF Len(p.fwd) > 0
    THEN [p EXCEPT !.inp.held = p.inp.buffer,
                   !.inp.buffer = Head(p.fwd).buffer,
                   !.inp.length = Head(p.fwd).length,
                   !.inp.index = 0,
                   !.inp.pc = "send"]
    ELSE [p EXCEPT !.inp.buffer = None]

\* mutant of InpRecv: the old buffer is kept when the channel is closed
InpRecvKeepsBuffer(p) ==
    IF Len(p.fwd) > 0
    THEN [p EXCEPT !.inp.held = p.inp.buffer,
                   !.inp.buffer = Head(p.fwd).buffer,
                   !.inp.length = Head(p.fwd).length,
                   !.inp.index = 0,
                   !.fwd = Tail(p.fwd),
                   !.inp.pc = "send"]
    ELSE p

InpRecv(p) ==
    IF Len(p.fwd) > 0
    THEN [p EXCEPT !.inp.held = p.inp.buffer,
                   !.inp.buffer = Head(p.fwd).buffer,
                   !.inp.length = Head(p.fwd).length,
                   !.inp.index = 0,
                   !.fwd = Tail(p.fwd),
                   !.inp.pc = "send"]
    ELSE [p EXCEPT !.inp.buffer = None]

\* mutant of InpSend: the old buffer is dropped, never sent back
InpSendDropsBuffer(p) == [p EXCEPT !.inp.held = None, !.inp.pc = "run"]

\* self.sender.send(old_buffer) of BufferedInputPipe::sync, its error discarded
InpSendEnabled(p) == p.inp.pc = "send" /\ (~p.out.alive \/ Len(p.back) < 1)

InpSend(p) ==
    IF ~p.out.alive
    THEN [p EXCEPT !.inp.held = None, !.inp.pc = "run"]
    ELSE [p EXCEPT !.back = Append(p.back, p.inp.held), !.inp.held = None,
                   !.inp.pc = "run"]

\* the part of produce() after the sync: it can run once no sync is pending
InpReadEnabled(p) == p.inp.pc = "run" /\ ~InpNeedsSync(p)

\* what produce() returns, an Option: <<>> is None, <<v>> is Some(v)
InpProduceResult(p) ==
    IF p.inp.buffer = None THEN <<>> ELSE <<p.mem[p.inp.buffer][p.inp.index + 1]>>

InpProduce(p) ==
    IF p.inp.buffer = None THEN p ELSE [p EXCEPT !.inp.index = p.inp.index + 1]

\* the bytes transfer_to() offers to writer.write(): buffer[index..length]
InpSlice(p) ==
    IF p.inp.buffer = None THEN <<>>
    ELSE SubSeq(p.mem[p.inp.buffer], p.inp.index + 1, p.inp.length)

\* mutant of InpTransfer: the whole slice counts as written
InpTransferAll(p, consumed) ==
    IF p.inp.buffer = None THEN p ELSE [p EXCEPT !.inp.index = p.inp.length]

\* transfer_to() after writer.write() consumed `consumed` bytes
InpTransfer(p, consumed) ==
    IF p.inp.buffer = None THEN p ELSE [p EXCEPT !.inp.index = p.inp.index + consumed]

\* the consumer endpoint goes out of scope (BufferedInputPipe::close, or a return)
InpDrop(p) == [p EXCEPT !.inp.alive = FALSE]

(***************************************************************************)
(* PipeSpec: one pipe, a producer thread that calls output() some number   *)
(* of times and then close(), and a consumer thread that calls produce().  *)
(***************************************************************************)
MaxSize == 2

MaxOut == 4

MaxNone == 2

PipeVals == {1, 2}

ThePipe == pipes["pipe"]

NoneCount == Cardinality({k \in 1 .. Len(got) : got[k] = <<>>})

PipeIdle ==
    /\ pipes = <<>>
    /\ sent = <<>>
    /\ got = <<>>

PipeInit ==
    /\ \E SIZE \in 1 .. MaxSize : pipes = [i \in {"pipe"} |-> PipeNew(SIZE)]
    /\ sent = <<>>
    /\ got = <<>>

\* producer: output(value)
ProducerOutput ==
    /\ ThePipe.out.pc = "run"
    /\ ~OutBroken(ThePipe)
    /\ Len(sent) < MaxOut
    /\ \E value \in PipeVals :
          /\ pipes' = [pipes EXCEPT !["pipe"] = OutOutput(@, value)]
          /\ sent' = Append(sent, value)
    /\ UNCHANGED got
    /\ UNCHANGED notPipe

\* producer: close()
ProducerClose ==
    /\ ThePipe.out.pc = "run"
    /\ pipes' = [pipes EXCEPT !["pipe"] = OutClose(@)]
    /\ UNCHANGED <<sent, got>>
    /\ UNCHANGED notPipe

\* producer: the send inside sync()
ProducerSend ==
    /\ OutSendEnabled(ThePipe)
    /\ pipes' = [pipes EXCEPT !["pipe"] = OutSend(@)]
    /\ UNCHANGED <<sent, got>>
    /\ UNCHANGED notPipe

\* producer: the recv inside sync()
ProducerRecv ==
    /\ OutRecvEnabled(ThePipe)
    /\ pipes' = [pipes EXCEPT !["pipe"] = OutRecv(@)]
    /\ UNCHANGED <<sent, got>>
    /\ UNCHANGED notPipe

\* consumer: the recv inside sync(), entered from produce()
ConsumerRecv ==
    /\ InpRecvEnabled(ThePipe)
    /\ pipes' = [pipes EXCEPT !["pipe"] = InpRecv(@)]
    /\ UNCHANGED <<sent, got>>
    /\ UNCHANGED notPipe

\* consumer: the send inside sync()
ConsumerSend ==
    /\ InpSendEnabled(ThePipe)
    /\ pipes' = [pipes EXCEPT !["pipe"] = InpSend(@)]
    /\ UNCHANGED <<sent, got>>
    /\ UNCHANGED notPipe

\* consumer: produce() returns
ConsumerProduce ==
    /\ InpReadEnabled(ThePipe)
    /\ NoneCount < MaxNone
    /\ got' = Append(got, InpProduceResult(ThePipe))
    /\ pipes' = [pipes EXCEPT !["pipe"] = InpProduce(@)]
    /\ UNCHANGED sent
    /\ UNCHANGED notPipe

PipeNext ==
    \/ ProducerOutput
    \/ ProducerClose
    \/ ProducerSend
    \/ ProducerRecv
    \/ ConsumerRecv
    \/ ConsumerSend
    \/ ConsumerProduce

(***************************************************************************)
(* CoderSpec: a BitEncoder driven by arbitrary (prediction, bit) pairs.    *)
(***************************************************************************)
MaxCoderBits == 4

Predictions ==
    {<<0, 0>>, <<0, 1>>, <<21845, 21845>>, <<32768, 0>>, <<65535, 65534>>, <<65535, 65535>>}

NoCall == [low |-> U32Zero, high |-> U32Max, middle |-> U32Zero, carry |-> 0, called |-> FALSE]

CoderInit ==
    /\ low = BitEncoderNew.low
    /\ high = BitEncoderNew.high
    /\ encOut = <<>>
    /\ encClosed = FALSE
    /\ coderLast = NoCall
    /\ coderBits = 0

\* one call of BitEncoder::bit(prediction, bit)
CoderBit ==
    /\ ~encClosed
    /\ coderBits < MaxCoderBits
    /\ \E prediction \in Predictions, bit \in Bits :
          LET m == EncMiddle(low, high, prediction)
              c == EncBit([low |-> low, high |-> high, out |-> encOut], prediction, bit)
          IN  /\ coderLast' = [low |-> low, high |-> high, middle |-> m.middle,
                               carry |-> m.carry, called |-> TRUE]
              /\ low' = c.low
              /\ high' = c.high
              /\ encOut' = c.out
    /\ coderBits' = coderBits + 1
    /\ UNCHANGED encClosed
    /\ UNCHANGED notCoder

\* BitEncoder::close
CoderClose ==
    /\ ~encClosed
    /\ encOut' = Append(encOut, EncCloseByte(low))
    /\ encClosed' = TRUE
    /\ UNCHANGED <<low, high, coderLast, coderBits>>
    /\ UNCHANGED notCoder

CoderNext == CoderBit \/ CoderClose

(***************************************************************************)
(* PrimarySpec: a PrimaryContext driven with matching() on arbitrary bytes *)
(* and a second one driven with matched() on the same bytes and the        *)
(* outcomes of the first.                                                  *)
(***************************************************************************)
MaxPrimaryLen == 5

PrimarySizes == {1, 2, 32, PRIMARY_CONTEXT_SIZE}

PrimaryBytes == {0, 1, 65, 255}

PrimaryIdle ==
    /\ primSize = 1
    /\ primA = PrimaryNew
    /\ primB = PrimaryNew
    /\ primLast = NoMatch
    /\ primSteps = 0

PrimaryInit ==
    /\ primSize \in PrimarySizes
    /\ primA = PrimaryNew
    /\ primB = PrimaryNew
    /\ primLast = NoMatch
    /\ primSteps = 0

\* o = A.matching(b); B.matched(b, o)
PrimaryStep ==
    /\ primSteps < MaxPrimaryLen
    /\ \E next_byte \in PrimaryBytes :
          LET r == PrimaryMatching(primSize, primA, next_byte)
          IN  /\ primA' = r.pc
              /\ primLast' = r.matched
              /\ primB' = PrimaryMatched(primSize, primB, next_byte, r.matched)
    /\ primSteps' = primSteps + 1
    /\ UNCHANGED primSize
    /\ UNCHANGED notPrimary

PrimaryNext == PrimaryStep

(***************************************************************************)
(* LiteralSpec: the decoder's byte(ctx) fed, bit by bit, the bits that the *)
(* encoder's byte(ctx, value) codes.                                       *)
(***************************************************************************)
LiteralContexts == {0, 256, 16383 * 256}

LiteralIdle ==
    /\ litCtx = 0
    /\ litByte = 0
    /\ litHigh = DecByteStart.high
    /\ litLow = DecByteStart.low
    /\ litStep = DecByteStart.step
    /\ litIndices = <<>>

LiteralInit ==
    /\ litCtx \in LiteralContexts
    /\ litByte \in Bytes
    /\ litHigh = DecByteStart.high
    /\ litLow = DecByteStart.low
    /\ litStep = DecByteStart.step
    /\ litIndices = <<>>

\* one self.bit(...) call of CombinedContextDecoder::byte, which decodes the
\* bit the encoder coded at this position
LiteralDecodeBit ==
    /\ litStep < 8
    /\ LET d == [high |-> litHigh, low |-> litLow, step |-> litStep]
           bit == EncByteSteps(litCtx, litByte)[litStep + 1][2]
           d1 == DecByteFeed(d, bit)
       IN  /\ litIndices' = Append(litIndices, DecByteIndex(litCtx, d))
           /\ litHigh' = d1.high
           /\ litLow' = d1.low
           /\ litStep' = d1.step
    /\ UNCHANGED <<litCtx, litByte>>
    /\ UNCHANGED notLiteral

LiteralNext == LiteralDecodeBit

(***************************************************************************)
(* CodecSpec: encode run on an input that grows byte by byte and may end   *)
(* at any point, then decode run on the stream encode wrote.               *)
(***************************************************************************)
MaxCodecLen == 3

CodecBytes == {0, 65, 255}

\* the twelve bytes "ABCABCABCABC"
AbcInput == <<65, 66, 67, 65, 66, 67, 65, 66, 67, 65, 66, 67>>

\* inputs that come back to the hash value 0 after four and after eight
\* bytes, so that the cell of hash 0 is visited three times; one of them goes
\* on for three bytes after the third visit
CodecScenarios ==
    {<<2, 173, 215, 255, 3, 13, 215, 255, 0>>,
     <<2, 173, 215, 255, 3, 13, 215, 255, 2>>,
     <<2, 173, 215, 255, 3, 13, 215, 255, 3>>,
     <<2, 173, 215, 255, 3, 13, 215, 255, 2, 0, 0, 0>>,
     AbcInput}

\* the bytes the reader may deliver after the input x
CodecNextBytes(x) ==
    {b \in Bytes :
        \/ Len(x) < MaxCodecLen /\ b \in CodecBytes
        \/ \E sc \in CodecScenarios :
              Len(x) < Len(sc) /\ SubSeq(sc, 1, Len(x) + 1) = Append(x, b)}

NoStep == [eof |-> FALSE, next_byte |-> 0, matched |-> NoMatch, first_byte |-> 0]

CodecIdle ==
    /\ cdcInput = <<>>
    /\ cdcPhase = "done"
    /\ cdcPrimary = PrimaryNew
    /\ cdcTranscript = <<>>
    /\ cdcSec = SecondaryEncoderNew
    /\ cdcStream = <<>>
    /\ cdcDec = CombinedContextDecoderNew(<<>>)
    /\ cdcOut = <<>>
    /\ cdcLast = NoStep

CodecInit ==
    /\ cdcInput = <<>>
    /\ cdcPhase = "encode"
    /\ cdcPrimary = PrimaryNew
    /\ cdcTranscript = <<>>
    /\ cdcSec = SecondaryEncoderNew
    /\ cdcStream = <<>>
    /\ cdcDec = CombinedContextDecoderNew(<<>>)
    /\ cdcOut = <<>>
    /\ cdcLast = NoStep

\* produce() returns Some(current_byte): the primary encoder classifies the
\* byte and the secondary encoder codes its messages
CodecEncodeByte ==
    /\ cdcPhase = "encode"
    /\ \E current_byte \in CodecNextBytes(cdcInput) :
          LET r == PrimaryEncoderStep(cdcPrimary, <<current_byte>>)
          IN  /\ cdcInput' = Append(cdcInput, current_byte)
              /\ cdcPrimary' = r.pc
              /\ cdcTranscript' = Append(cdcTranscript,
                                         [matched |-> r.matched, literal |-> r.literal,
                                          first_byte |-> r.first_byte, eof |-> FALSE,
                                          info |-> PrimaryGetInfo(cdcPrimary),
                                          messages |-> r.messages,
                                          calls |-> SecEncCalls(cdcSec, r.messages, 1)])
              /\ cdcSec' = SecEncMessages(cdcSec, r.messages, 1)
    /\ UNCHANGED <<cdcPhase, cdcStream, cdcDec, cdcOut, cdcLast>>
    /\ UNCHANGED notCodec

\* produce() returns None: the primary encoder sends the end-of-stream
\* marker, the secondary encoder codes it and closes the BitEncoder; the
\* decoder is then constructed on the stream
CodecEncodeEof ==
    /\ cdcPhase = "encode"
    /\ LET r == PrimaryEncoderStep(cdcPrimary, <<>>)
           s == SecEncClose(SecEncMessages(cdcSec, r.messages, 1))
       IN  /\ cdcTranscript' = Append(cdcTranscript,
                                      [matched |-> r.matched, literal |-> r.literal,
                                       first_byte |-> r.first_byte, eof |-> TRUE,
                                       info |-> PrimaryGetInfo(cdcPrimary),
                                       messages |-> r.messages,
                                       calls |-> SecEncCalls(cdcSec, r.messages, 1)])
           /\ cdcSec' = s
           /\ cdcStream' = s.out
           /\ cdcDec' = CombinedContextDecoderNew(s.out)
    /\ cdcPhase' = "decode"
    /\ UNCHANGED <<cdcInput, cdcPrimary, cdcOut, cdcLast>>
    /\ UNCHANGED notCodec

\* one iteration of the decoder's loop; the model follows the decoder for
\* at most one byte beyond the length of the input
CodecDecodeStep ==
    /\ cdcPhase = "decode"
    /\ Len(cdcOut) <= Len(cdcInput)
    /\ LET r == CdDecodeStep(cdcStream, cdcDec)
       IN  /\ cdcDec' = r.cd
           /\ cdcLast' = [eof |-> r.eof, next_byte |-> r.next_byte, matched |-> r.matched,
                          first_byte |-> r.first_byte]
           /\ cdcOut' = IF r.eof THEN cdcOut ELSE Append(cdcOut, r.next_byte)
           /\ cdcPhase' = IF r.eof THEN "done" ELSE "decode"
    /\ UNCHANGED <<cdcInput, cdcPrimary, cdcTranscript, cdcSec, cdcStream>>
    /\ UNCHANGED notCodec

CodecNext ==
    \/ CodecEncodeByte
    \/ CodecEncodeEof
    \/ CodecDecodeStep

(***************************************************************************)
(* DecodeSpec: decode run on a byte stream that need not come from encode: *)
(* outputs of encode, truncated and corrupted ones, and the empty stream.  *)
(* cdcOut keeps only the latest byte passed to output().                   *)
(***************************************************************************)
MaxStreamLen == 2

\* bytes of streams that encode writes for short inputs
DecodeBytes == {0, 127, 192}

RECURSIVE SeqsUpTo(_, _)
SeqsUpTo(S, n) ==
    IF n = 0 THEN {<<>>}
    ELSE LET shorter == SeqsUpTo(S, n - 1)
         IN  shorter \cup {Append(x, b) : x \in {y \in shorter : Len(y) = n - 1}, b \in S}

DecodeStreams == SeqsUpTo(DecodeBytes, MaxStreamLen)

DecodeInit ==
    /\ cdcInput = <<>>
    /\ cdcPhase = "decode"
    /\ cdcPrimary = PrimaryNew
    /\ cdcTranscript = <<>>
    /\ cdcSec = SecondaryEncoderNew
    /\ cdcStream \in DecodeStreams
    /\ cdcDec = CombinedContextDecoderNew(cdcStream)
    /\ cdcOut = <<>>
    /\ cdcLast = NoStep

\* one iteration of the loop of CombinedContextDecoder::decode
DecodeStep ==
    /\ cdcPhase = "decode"
    /\ LET r == CdDecodeStep(cdcStream, cdcDec)
       IN  /\ cdcDec' = r.cd
           /\ cdcLast' = [eof |-> r.eof, next_byte |-> r.next_byte, matched |-> r.matched,
                          first_byte |-> r.first_byte]
           /\ cdcOut' = IF r.eof THEN cdcOut ELSE <<r.next_byte>>
           /\ cdcPhase' = IF r.eof THEN "done" ELSE "decode"
    /\ UNCHANGED <<cdcInput, cdcPrimary, cdcTranscript, cdcSec, cdcStream>>
    /\ UNCHANGED notCodec

DecodeNext == DecodeStep

(***************************************************************************)
(* EncodeSpec: encode() as four threads (file reader, primary context      *)
(* encoder, secondary context encoder, file writer) connected by three     *)
(* pipes.  A step of a thread is what it does between two channel          *)
(* operations; a blocked channel operation is an action that is not        *)
(* enabled.  reader.read() may return any non-zero number of bytes that    *)
(* the buffer has room for, and 0 only at the end of the source;           *)
(* writer.write() accepts any non-zero part of what it is offered.         *)
(***************************************************************************)
MaxIo == 2

MaxMsg == 2

MaxPipelineLen == 2

PipelineBytes == {0, 65}

PipelineInputs == SeqsUpTo(PipelineBytes, MaxPipelineLen)

Stages == {"reader", "primary", "secondary", "writer"}

\* reader_output_pipe / reader_input_pipe, message_writer / message_reader,
\* writer_output_pipe / writer_input_pipe
PipeIds == {"bytes", "messages", "coded"}

\* the pipes are those of encode (decode has no pipe of messages)
IsEncode == "messages" \in DOMAIN pipes

\* the threads of decode
DecodeStages == {"reader", "decoder", "writer"}

\* the thread that owns the output endpoint of pipe i
Producer(i) ==
    CASE i = "bytes" -> "reader"
      [] i = "messages" -> "primary"
      [] OTHER -> IF IsEncode THEN "secondary" ELSE "decoder"

\* the thread that owns the input endpoint of pipe i
Consumer(i) ==
    CASE i = "bytes" -> IF IsEncode THEN "primary" ELSE "decoder"
      [] i = "messages" -> "secondary"
      [] OTHER -> "writer"

\* a thread that returns drops the endpoints it owns
DropStage(ps, t) ==
    [i \in DOMAIN ps |->
        IF Producer(i) = t THEN OutDrop(ps[i])
        ELSE IF Consumer(i) = t THEN InpDrop(ps[i])
        ELSE ps[i]]

\* the position of a thread after a step on its output endpoint p1: an Err
\* is passed on with `?`, and close() returning Ok is the thread's return
AfterOut(pc, p1) ==
    IF p1.out.pc = "err" THEN "failed"
    ELSE IF p1.out.pc = "closed" THEN "returned"
    ELSE pc

\* the pipes after the step of thread t that left its output pipe i as p1
PipesAfterOut(ps, i, p1) ==
    IF p1.out.pc = "err"
    THEN DropStage([ps EXCEPT ![i] = p1], Producer(i))
    ELSE [ps EXCEPT ![i] = p1]

\* the thread is at the produce() / transfer_to() call of its loop
AtInput(t) ==
    /\ plStage[t] = "run"
    /\ plTodo[t] = <<>>
    /\ \A i \in DOMAIN pipes : Producer(i) = t => pipes[i].out.pc = "run"

PipelineIdle ==
    /\ plInput = <<>>
    /\ plRead = 0
    /\ plStage = [t \in Stages |-> "returned"]
    /\ plPrim = PrimaryNew
    /\ plSec = SecondaryEncoderNew
    /\ plTodo = [t \in Stages |-> <<>>]
    /\ plSink = <<>>

DecoderIdle ==
    /\ plDec = [started |-> FALSE, cd |-> CombinedContextDecoderNew(<<>>)]
    /\ plTaken = <<>>
    /\ plEnded = FALSE

WriterIdle ==
    /\ wrSink = <<>>
    /\ wrShort = FALSE
    /\ wrStage = "returned"
    /\ wrPending = <<>>
    /\ wrResults = <<>>

NoResult == [stage |-> "encode", kind |-> "none"]

OkResult == [stage |-> "encode", kind |-> "Ok"]

Unwind == [stage |-> "encode", kind |-> "unwind"]

JoinIdle ==
    /\ plFaults = 0
    /\ plJoin = 0
    /\ plClosure = NoResult
    /\ plReturn = NoResult

\* encode: the three pipe() calls and the four spawned threads
EncodeInit ==
    /\ plInput \in PipelineInputs
    /\ plRead = 0
    /\ plStage = [t \in Stages |-> "run"]
    /\ plPrim = PrimaryNew
    /\ plSec = SecondaryEncoderNew
    /\ plTodo = [t \in Stages |-> <<>>]
    /\ plSink = <<>>
    /\ \E IO_BUFFER_SIZE \in 1 .. MaxIo, MESSAGE_BUFFER_SIZE \in 1 .. MaxMsg :
          pipes = [i \in PipeIds |->
                      PipeNew(IF i = "messages" THEN MESSAGE_BUFFER_SIZE
                              ELSE IO_BUFFER_SIZE)]
    /\ sent = <<>>
    /\ got = <<>>

\* while output.receive_from(&mut reader)? > 0 {} and, after a read of 0
\* bytes, output.close()
ReaderReceive ==
    /\ AtInput("reader")
    /\ LET p == pipes["bytes"]
           remaining == Len(plInput) - plRead
           space == p.size - p.out.index
       IN  IF OutBroken(p)
           THEN /\ pipes' = DropStage(pipes, "reader")
                /\ plStage' = [plStage EXCEPT !["reader"] = "failed"]
                /\ UNCHANGED plRead
           ELSE IF remaining = 0
           THEN \E p1 \in {OutClose(p)} :
                   /\ pipes' = PipesAfterOut(pipes, "bytes", p1)
                   /\ plStage' = [plStage EXCEPT !["reader"] = AfterOut("run", p1)]
                   /\ UNCHANGED plRead
           ELSE \E produced_length \in 1 .. (IF space < remaining THEN space ELSE remaining) :
                   /\ pipes' = [pipes EXCEPT !["bytes"] =
                                   OutReceiveFrom(p, SubSeq(plInput, plRead + 1,
                                                            plRead + produced_length))]
                   /\ plRead' = plRead + produced_length
                   /\ UNCHANGED plStage
    /\ UNCHANGED <<plInput, plPrim, plSec, plTodo, plSink>>
    /\ UNCHANGED notPipeline

\* run_primary_context_encoder: get_info, input.produce() and matching; the
\* messages of the branch taken are then output one by one
PrimaryProduce ==
    /\ AtInput("primary")
    /\ InpReadEnabled(pipes["bytes"])
    /\ \E r \in {PrimaryEncoderStep(plPrim, InpProduceResult(pipes["bytes"]))} :
          /\ plPrim' = r.pc
          /\ plTodo' = [plTodo EXCEPT !["primary"] = r.messages]
          /\ plStage' = [plStage EXCEPT !["primary"] = IF r.returned THEN "eof" ELSE "run"]
    /\ pipes' = [pipes EXCEPT !["bytes"] = InpProduce(pipes["bytes"])]
    /\ UNCHANGED <<plInput, plRead, plSec, plSink>>
    /\ UNCHANGED notPipeline

\* one output.output(..)? of thread t on its pipe i
StageOutput(t, i) ==
    /\ plStage[t] \in {"run", "eof"}
    /\ plTodo[t] # <<>>
    /\ pipes[i].out.pc = "run"
    /\ IF OutBroken(pipes[i])
       THEN /\ pipes' = DropStage(pipes, t)
            /\ plStage' = [plStage EXCEPT ![t] = "failed"]
            /\ plTodo' = [plTodo EXCEPT ![t] = <<>>]
       ELSE /\ pipes' = [pipes EXCEPT ![i] = OutOutput(pipes[i], Head(plTodo[t]))]
            /\ plTodo' = [plTodo EXCEPT ![t] = Tail(plTodo[t])]
            /\ UNCHANGED plStage
    /\ UNCHANGED <<plInput, plRead, plPrim, plSec, plSink>>
    /\ UNCHANGED notPipeline

PrimaryOutput == StageOutput("primary", "messages")

\* the None branch after its three messages: input.close()?; output.close()?
PrimaryClose ==
    /\ plStage["primary"] = "eof"
    /\ plTodo["primary"] = <<>>
    /\ pipes["messages"].out.pc = "run"
    /\ \E p1 \in {OutClose(pipes["messages"])} :
          /\ pipes' = PipesAfterOut([pipes EXCEPT !["bytes"] = InpDrop(pipes["bytes"])],
                                    "messages", p1)
          /\ plStage' = [plStage EXCEPT !["primary"] = AfterOut("eof", p1)]
    /\ UNCHANGED <<plInput, plRead, plPrim, plSec, plTodo, plSink>>
    /\ UNCHANGED notPipeline

\* SecondaryContextEncoder::encode: input.produce() and the coding of the
\* message; the bytes the BitEncoder flushes are then output one by one.  On
\* None the input is closed and BitEncoder::close outputs (low >> 24)
SecondaryProduce ==
    /\ AtInput("secondary")
    /\ InpReadEnabled(pipes["messages"])
    /\ \E produced \in {InpProduceResult(pipes["messages"])} :
          IF produced = <<>>
          THEN /\ pipes' = [pipes EXCEPT !["messages"] = InpDrop(pipes["messages"])]
               /\ plTodo' = [plTodo EXCEPT !["secondary"] = <<EncCloseByte(plSec.low)>>]
               /\ plStage' = [plStage EXCEPT !["secondary"] = "eof"]
               /\ UNCHANGED plSec
          ELSE \E s1 \in {SecEncMessage(plSec, produced[1])} :
                  /\ pipes' = [pipes EXCEPT !["messages"] = InpProduce(pipes["messages"])]
                  /\ plTodo' = [plTodo EXCEPT !["secondary"] = s1.out]
                  /\ plSec' = [s1 EXCEPT !.out = <<>>]
                  /\ UNCHANGED plStage
    /\ UNCHANGED <<plInput, plRead, plPrim, plSink>>
    /\ UNCHANGED notPipeline

SecondaryOutput == StageOutput("secondary", "coded")

\* BitEncoder::close after its output: self.output.close()
SecondaryClose ==
    /\ plStage["secondary"] = "eof"
    /\ plTodo["secondary"] = <<>>
    /\ pipes["coded"].out.pc = "run"
    /\ \E p1 \in {OutClose(pipes["coded"])} :
          /\ pipes' = PipesAfterOut(pipes, "coded", p1)
          /\ plStage' = [plStage EXCEPT !["secondary"] = AfterOut("eof", p1)]
    /\ UNCHANGED <<plInput, plRead, plPrim, plSec, plTodo, plSink>>
    /\ UNCHANGED notPipeline

\* while input.transfer_to(&mut writer)? > 0 {} and, after a transfer of 0
\* bytes, input.close().  plSink follows the sink of encode; what decode
\* writes is not kept
WriterTransfer ==
    /\ AtInput("writer")
    /\ InpReadEnabled(pipes["coded"])
    /\ \E sliced_buffer \in {InpSlice(pipes["coded"])} :
          IF pipes["coded"].inp.buffer = None
          THEN /\ pipes' = [pipes EXCEPT !["coded"] = InpDrop(pipes["coded"])]
               /\ plStage' = [plStage EXCEPT !["writer"] = "returned"]
               /\ UNCHANGED plSink
          ELSE \E consumed_length \in 1 .. Len(sliced_buffer) :
                  /\ pipes' = [pipes EXCEPT !["coded"] =
                                  InpTransfer(pipes["coded"], consumed_length)]
                  /\ plSink' = IF IsEncode
                                THEN plSink \o SubSeq(sliced_buffer, 1, consumed_length)
                                ELSE plSink
                  /\ UNCHANGED plStage
    /\ UNCHANGED <<plInput, plRead, plPrim, plSec, plTodo>>
    /\ UNCHANGED notPipeline

\* the producer of pipe i inside BufferedOutputPipe::sync: its send
StageOutSend(i) ==
    /\ plStage[Producer(i)] \in {"run", "eof"}
    /\ OutSendEnabled(pipes[i])
    /\ \E p1 \in {OutSend(pipes[i])} :
          /\ pipes' = PipesAfterOut(pipes, i, p1)
          /\ plStage' = [plStage EXCEPT ![Producer(i)] = AfterOut(@, p1)]
    /\ UNCHANGED <<plInput, plRead, plPrim, plSec, plTodo, plSink>>
    /\ UNCHANGED notPipeline

\* the producer of pipe i inside BufferedOutputPipe::sync: its recv
StageOutRecv(i) ==
    /\ plStage[Producer(i)] \in {"run", "eof"}
    /\ OutRecvEnabled(pipes[i])
    /\ \E p1 \in {OutRecv(pipes[i])} :
          /\ pipes' = PipesAfterOut(pipes, i, p1)
          /\ plStage' = [plStage EXCEPT ![Producer(i)] = AfterOut(@, p1)]
    /\ UNCHANGED <<plInput, plRead, plPrim, plSec, plTodo, plSink>>
    /\ UNCHANGED notPipeline

\* the consumer of pipe i inside BufferedInputPipe::sync, entered from its
\* produce() or transfer_to(): its recv
StageInpRecv(i) ==
    /\ AtInput(Consumer(i))
    /\ InpRecvEnabled(pipes[i])
    /\ pipes' = [pipes EXCEPT ![i] = InpRecv(pipes[i])]
    /\ UNCHANGED <<plInput, plRead, plStage, plPrim, plSec, plTodo, plSink>>
    /\ UNCHANGED notPipeline

\* the consumer of pipe i inside BufferedInputPipe::sync: its send
StageInpSend(i) ==
    /\ plStage[Consumer(i)] = "run"
    /\ InpSendEnabled(pipes[i])
    /\ pipes' = [pipes EXCEPT ![i] = InpSend(pipes[i])]
    /\ UNCHANGED <<plInput, plRead, plStage, plPrim, plSec, plTodo, plSink>>
    /\ UNCHANGED notPipeline

\* what the four loops compute on input x from byte k on when nothing is
\* in flight: the primary encoder in state pc, the secondary encoder in
\* state s with the bytes it has output so far
RECURSIVE EncodeFrom(_, _, _, _)
EncodeFrom(pc, s, x, k) ==
    Only({ Only({ IF r.returned THEN SecEncClose(s1).out
                  ELSE EncodeFrom(r.pc, s1, x, k + 1) :
                  s1 \in {SecEncMessages(s, r.messages, 1)} }) :
           r \in {PrimaryEncoderStep(pc, IF k > Len(x) THEN <<>> ELSE <<x[k]>>)} })

EncodeAll(x) == EncodeFrom(PrimaryNew, SecondaryEncoderNew, x, 1)

AllReturned == \A t \in Stages : plStage[t] = "returned"

\* the steps of one thread
ReaderThread == ReaderReceive \/ StageOutSend("bytes") \/ StageOutRecv("bytes")

PrimaryThread ==
    \/ PrimaryProduce
    \/ PrimaryOutput
    \/ PrimaryClose
    \/ StageInpRecv("bytes")
    \/ StageInpSend("bytes")
    \/ StageOutSend("messages")
    \/ StageOutRecv("messages")

SecondaryThread ==
    \/ SecondaryProduce
    \/ SecondaryOutput
    \/ SecondaryClose
    \/ StageInpRecv("messages")
    \/ StageInpSend("messages")
    \/ StageOutSend("coded")
    \/ StageOutRecv("coded")

WriterThread == WriterTransfer \/ StageInpRecv("coded") \/ StageInpSend("coded")

EncodeNext == ReaderThread \/ PrimaryThread \/ SecondaryThread \/ WriterThread

(***************************************************************************)
(* EncodeFailSpec: the pipeline with failures, and encode's own thread.    *)
(* A thread ends as "returned" (Ok), "failed" (the Err of a pipe           *)
(* operation), "io" (the Err of reader.read() or writer.write()) or        *)
(* "panic".  The closure of encode joins the four handles in order and     *)
(* returns at the first Err; std::thread::scope then waits for every       *)
(* thread and panics if a thread whose handle was not joined has panicked. *)
(***************************************************************************)
MaxFaults == 1

\* the order of the thread_join calls of encode and of decode
StageOrder ==
    IF IsEncode THEN <<"reader", "primary", "secondary", "writer">>
    ELSE <<"reader", "decoder", "writer">>

Finished(t) == plStage[t] \in {"returned", "failed", "io", "panic"}

\* the thread waits in a send or recv that cannot complete
Blocked(t) ==
    \/ \E i \in DOMAIN pipes :
          /\ Producer(i) = t
          /\ \/ pipes[i].out.pc = "send" /\ ~OutSendEnabled(pipes[i])
             \/ pipes[i].out.pc = "recv" /\ ~OutRecvEnabled(pipes[i])
    \/ \E i \in DOMAIN pipes :
          /\ Consumer(i) = t
          /\ \/ pipes[i].inp.pc = "send" /\ ~InpSendEnabled(pipes[i])
             \/ /\ AtInput(t)
                /\ pipes[i].inp.pc = "run"
                /\ InpNeedsSync(pipes[i])
                /\ ~InpRecvEnabled(pipes[i])

Running(t) == plStage[t] \in {"run", "eof"} /\ ~Blocked(t)

\* the thread ends with `outcome` and its endpoints are dropped
StageEnds(t, outcome) ==
    /\ pipes' = DropStage(pipes, t)
    /\ plStage' = [plStage EXCEPT ![t] = outcome]
    /\ plTodo' = [plTodo EXCEPT ![t] = <<>>]
    /\ plFaults' = plFaults - 1
    /\ UNCHANGED <<plInput, plRead, plPrim, plSec, plSink>>
    /\ UNCHANGED <<plJoin, plClosure, plReturn>>
    /\ UNCHANGED decoderVars
    /\ UNCHANGED notStages

\* reader.read(sliced_buffer)? of receive_from returns Err
ReaderIoError ==
    /\ plFaults > 0
    /\ AtInput("reader")
    /\ ~OutBroken(pipes["bytes"])
    /\ StageEnds("reader", "io")

\* writer.write(sliced_buffer)? of transfer_to returns Err
WriterIoError ==
    /\ plFaults > 0
    /\ AtInput("writer")
    /\ InpReadEnabled(pipes["coded"])
    /\ pipes["coded"].inp.buffer # None
    /\ StageEnds("writer", "io")

\* a thread panics where it runs; unwinding drops its endpoints
StagePanic(t) ==
    /\ plFaults > 0
    /\ Running(t)
    /\ StageEnds(t, "panic")

\* the Result thread_join makes of a finished thread: Ok(value?) or
\* Err(AnyError::from_box(payload))
ThreadJoin(t) ==
    CASE plStage[t] = "returned" -> OkResult
      [] plStage[t] = "failed" -> [stage |-> t, kind |-> "pipe"]
      [] plStage[t] = "io" -> [stage |-> t, kind |-> "io"]
      [] OTHER -> [stage |-> t, kind |-> "panic"]

\* thread_join(handle)? in the closure of encode: the next handle in order
EncodeJoin ==
    /\ plClosure = NoResult
    /\ plJoin < Len(StageOrder)
    /\ Finished(StageOrder[plJoin + 1])
    /\ plJoin' = plJoin + 1
    /\ \E joined \in {ThreadJoin(StageOrder[plJoin + 1])} :
          plClosure' = IF joined # OkResult THEN joined
                       ELSE IF plJoin + 1 = Len(StageOrder) THEN OkResult
                       ELSE NoResult
    /\ UNCHANGED <<plFaults, plReturn, pipes>>
    /\ UNCHANGED <<pipelineVars, decoderVars>>
    /\ UNCHANGED notStages

\* a thread whose handle the closure did not join has panicked
UnjoinedPanic ==
    \E k \in plJoin + 1 .. Len(StageOrder) : plStage[StageOrder[k]] = "panic"

\* the end of scope(): after the closure, every thread is waited for
ScopeExit ==
    /\ plClosure # NoResult
    /\ plReturn = NoResult
    /\ \A t \in DOMAIN plStage : Finished(t)
    /\ plReturn' = IF UnjoinedPanic THEN Unwind ELSE plClosure
    /\ UNCHANGED <<plFaults, plJoin, plClosure, pipes>>
    /\ UNCHANGED <<pipelineVars, decoderVars>>
    /\ UNCHANGED notStages

EncodeThread == EncodeJoin \/ ScopeExit

EncodeFault == ReaderIoError \/ WriterIoError \/ (\E t \in DOMAIN plStage : StagePanic(t))

EncodeFailInit ==
    /\ EncodeInit
    /\ plFaults \in 0 .. MaxFaults
    /\ plJoin = 0
    /\ plClosure = NoResult
    /\ plReturn = NoResult

EncodeFailNext == EncodeNext \/ EncodeFault \/ EncodeThread

(***************************************************************************)
(* ReaderFailSpec: encode on a source whose read() may return Err at any   *)
(* call, the other threads never failing of their own.                     *)
(***************************************************************************)
\* the inputs of the source: with buffers of two bytes, the three-byte
\* input lets a full buffer be handed over and a partial one be filled
ReaderFailInputs == {<<>>, <<65>>, <<65, 0>>, <<65, 0, 65>>}

ReaderFailInit ==
    /\ plInput \in ReaderFailInputs
    /\ plRead = 0
    /\ plStage = [t \in Stages |-> "run"]
    /\ plPrim = PrimaryNew
    /\ plSec = SecondaryEncoderNew
    /\ plTodo = [t \in Stages |-> <<>>]
    /\ plSink = <<>>
    /\ \E IO_BUFFER_SIZE \in 1 .. MaxIo, MESSAGE_BUFFER_SIZE \in 1 .. MaxMsg :
          pipes = [i \in PipeIds |->
                      PipeNew(IF i = "messages" THEN MESSAGE_BUFFER_SIZE
                              ELSE IO_BUFFER_SIZE)]
    /\ sent = <<>>
    /\ got = <<>>
    /\ plFaults \in 0 .. MaxFaults
    /\ plJoin = 0
    /\ plClosure = NoResult
    /\ plReturn = NoResult

ReaderFailNext == EncodeNext \/ ReaderIoError \/ EncodeThread

(***************************************************************************)
(* WriterSpec: one pipe of bytes between a producer thread, which calls    *)
(* output() and receive_from() and then close() and goes on calling after  *)
(* an Err, and run_file_writer, whose writer.write() accepts any non-zero  *)
(* part of what it is offered or returns an I/O error.                     *)
(***************************************************************************)
MaxWrites == 3

NonEmptySeqsUpTo(S, n) == SeqsUpTo(S, n) \ {<<>>}

WriterInit ==
    /\ \E SIZE \in 1 .. MaxSize : pipes = [i \in {"pipe"} |-> PipeNew(SIZE)]
    /\ sent = <<>>
    /\ got = <<>>
    /\ wrSink = <<>>
    /\ wrShort = FALSE
    /\ wrStage = "run"
    /\ wrPending = <<>>
    /\ wrResults = <<>>

\* the producer makes a call on its endpoint
CallMade(call) == [call |-> call, gone |-> ~ThePipe.inp.alive]

CallReturns(made, result) ==
    Append(wrResults, [call |-> made.call, gone |-> made.gone, result |-> result])

\* the producer is between two calls and has not closed its endpoint
BetweenCalls ==
    /\ ThePipe.out.pc = "run"
    /\ ThePipe.out.alive
    /\ wrPending = <<>>

\* a write (output or receive_from) that leaves the pipe as p1: it returns
\* Ok at once unless the buffer is full, and then it is inside sync()
WriteStarts(call, p1, values) ==
    /\ pipes' = [pipes EXCEPT !["pipe"] = p1]
    /\ sent' = sent \o values
    /\ IF p1.out.pc = "run"
       THEN /\ wrResults' = CallReturns(CallMade(call), "Ok")
            /\ UNCHANGED wrPending
       ELSE /\ wrPending' = <<CallMade(call)>>
            /\ UNCHANGED wrResults

\* a write on an endpoint without buffer: Err("Broken pipe!")
WriteBroken(call) ==
    /\ wrResults' = CallReturns(CallMade(call), "BrokenPipe")
    /\ UNCHANGED <<pipes, sent, wrPending>>

\* output(value)
WriterSpecOutput ==
    /\ BetweenCalls
    /\ Len(wrResults) < MaxWrites
    /\ IF OutBroken(ThePipe)
       THEN WriteBroken("output")
       ELSE \E value \in PipeVals :
               WriteStarts("output", OutOutput(ThePipe, value), <<value>>)
    /\ UNCHANGED <<wrSink, wrShort, wrStage>>
    /\ UNCHANGED notWriter

\* receive_from(reader) with a reader that returns at least one byte
WriterSpecReceiveFrom ==
    /\ BetweenCalls
    /\ Len(wrResults) < MaxWrites
    /\ IF OutBroken(ThePipe)
       THEN WriteBroken("receive_from")
       ELSE \E data \in NonEmptySeqsUpTo(PipeVals, ThePipe.size - ThePipe.out.index) :
               WriteStarts("receive_from", OutReceiveFrom(ThePipe, data), data)
    /\ UNCHANGED <<wrSink, wrShort, wrStage>>
    /\ UNCHANGED notWriter

\* close()
WriterSpecClose ==
    /\ BetweenCalls
    /\ \E p1 \in {OutClose(ThePipe)} :
          /\ pipes' = [pipes EXCEPT !["pipe"] = p1]
          /\ IF p1.out.pc = "closed"
             THEN /\ wrResults' = CallReturns(CallMade("close"), "Ok")
                  /\ UNCHANGED wrPending
             ELSE /\ wrPending' = <<CallMade("close")>>
                  /\ UNCHANGED wrResults
    /\ UNCHANGED <<sent, wrSink, wrShort, wrStage>>
    /\ UNCHANGED notWriter

\* the pipe after a step of sync() that left it as p1: an Err ends the call,
\* and after a write the endpoint is still there for the next call
AfterSync(p1) ==
    IF p1.out.pc = "err" /\ p1.out.alive THEN [p1 EXCEPT !.out.pc = "run"] ELSE p1

\* the producer's send inside sync(): SendError when the consumer is gone
WriterSpecSend ==
    /\ OutSendEnabled(ThePipe)
    /\ \E p1 \in {OutSend(ThePipe)} :
          /\ pipes' = [pipes EXCEPT !["pipe"] = AfterSync(p1)]
          /\ IF p1.out.pc = "err"
             THEN /\ wrResults' = CallReturns(wrPending[1], "SendError")
                  /\ wrPending' = <<>>
             ELSE UNCHANGED <<wrResults, wrPending>>
    /\ UNCHANGED <<sent, wrSink, wrShort, wrStage>>
    /\ UNCHANGED notWriter

\* the producer's recv inside sync(): RecvError when the consumer is gone
\* and has not sent a buffer back
WriterSpecRecv ==
    /\ OutRecvEnabled(ThePipe)
    /\ \E p1 \in {OutRecv(ThePipe)} :
          /\ pipes' = [pipes EXCEPT !["pipe"] = AfterSync(p1)]
          /\ wrResults' = CallReturns(wrPending[1],
                                      IF p1.out.pc = "err" THEN "RecvError" ELSE "Ok")
          /\ wrPending' = <<>>
    /\ UNCHANGED <<sent, wrSink, wrShort, wrStage>>
    /\ UNCHANGED notWriter

\* while input.transfer_to(&mut writer)? > 0 {} and, after a transfer of 0
\* bytes, input.close()
WriterSpecTransfer ==
    /\ wrStage = "run"
    /\ InpReadEnabled(ThePipe)
    /\ \E sliced_buffer \in {InpSlice(ThePipe)} :
          IF ThePipe.inp.buffer = None
          THEN /\ pipes' = [pipes EXCEPT !["pipe"] = InpDrop(ThePipe)]
               /\ wrStage' = "returned"
               /\ UNCHANGED <<wrSink, wrShort>>
          ELSE \E consumed_length \in 1 .. Len(sliced_buffer) :
                  /\ pipes' = [pipes EXCEPT !["pipe"] =
                                  InpTransfer(ThePipe, consumed_length)]
                  /\ wrSink' = wrSink \o SubSeq(sliced_buffer, 1, consumed_length)
                  /\ wrShort' = (wrShort \/ consumed_length < Len(sliced_buffer))
                  /\ UNCHANGED wrStage
    /\ UNCHANGED <<sent, wrPending, wrResults>>
    /\ UNCHANGED notWriter

\* writer.write(sliced_buffer)? returns Err: run_file_writer returns it and
\* its endpoint is dropped
WriterSpecIoError ==
    /\ wrStage = "run"
    /\ InpReadEnabled(ThePipe)
    /\ ThePipe.inp.buffer # None
    /\ pipes' = [pipes EXCEPT !["pipe"] = InpDrop(ThePipe)]
    /\ wrStage' = "io"
    /\ UNCHANGED <<sent, wrSink, wrShort, wrPending, wrResults>>
    /\ UNCHANGED notWriter

\* run_file_writer inside BufferedInputPipe::sync
WriterSpecSync ==
    /\ wrStage = "run"
    /\ ConsumerRecv \/ ConsumerSend
    /\ UNCHANGED writerVars

WriterSpecProducer ==
    \/ WriterSpecOutput
    \/ WriterSpecReceiveFrom
    \/ WriterSpecClose
    \/ WriterSpecSend
    \/ WriterSpecRecv

WriterSpecConsumer == WriterSpecTransfer \/ WriterSpecIoError \/ WriterSpecSync

WriterNext == WriterSpecProducer \/ WriterSpecConsumer

(***************************************************************************)
(* DecodeFailSpec: decode() as three threads (file reader, combined        *)
(* decoder, file writer) connected by two pipes, with failures, and        *)
(* decode's own thread, which joins as encode does.  The BitDecoder takes  *)
(* its bytes from the input pipe with produce(), one when it needs one;    *)
(* after produce() has returned None every further byte is 0.              *)
(***************************************************************************)
\* streams on which decode returns when nothing fails: what encode writes
\* for the empty input and for the one byte "A"
DecodeInputs == {EncodeAll(<<>>), EncodeAll(<<65>>)}

notDecoder == <<coderVars, sent, got, primaryVars, literalVars, codecVars, joinVars, writerVars,
      rangeVars, bridgeVars, hashVars>>

\* decode: the two pipe() calls and the three spawned threads
DecodeFailInit ==
    /\ plInput \in DecodeInputs
    /\ plRead = 0
    /\ plStage = [t \in DecodeStages |-> "run"]
    /\ plPrim = PrimaryNew
    /\ plSec = SecondaryEncoderNew
    /\ plTodo = [t \in DecodeStages |-> <<>>]
    /\ plSink = <<>>
    /\ \E IO_BUFFER_SIZE \in 1 .. MaxIo :
          pipes = [i \in {"bytes", "coded"} |-> PipeNew(IO_BUFFER_SIZE)]
    /\ sent = <<>>
    /\ got = <<>>
    /\ plDec = [started |-> FALSE, cd |-> CombinedContextDecoderNew(<<>>)]
    /\ plTaken = <<>>
    /\ plEnded = FALSE
    /\ plFaults \in 0 .. MaxFaults
    /\ plJoin = 0
    /\ plClosure = NoResult
    /\ plReturn = NoResult

\* the number of input bytes the decoder has taken after its next step
\* (BitDecoder::new, or one iteration of decode's loop) on the stream
DecoderPosAfter(stream) ==
    IF plDec.started
    THEN CdDecodeStep(stream, plDec.cd).cd.decoder.pos
    ELSE BitDecoderNew(stream).pos

\* the decoder's next step calls produce(): it reads a byte beyond those
\* taken so far, and produce() has not returned None yet
DecoderNeedsInput ==
    /\ ~plEnded
    /\ DecoderPosAfter(Append(plTaken, 0)) > Len(plTaken)

\* input.produce() of the BitDecoder
DecoderProduce ==
    /\ AtInput("decoder")
    /\ DecoderNeedsInput
    /\ InpReadEnabled(pipes["bytes"])
    /\ \E produced \in {InpProduceResult(pipes["bytes"])} :
          /\ plTaken' = plTaken \o produced
          /\ plEnded' = (produced = <<>>)
    /\ pipes' = [pipes EXCEPT !["bytes"] = InpProduce(pipes["bytes"])]
    /\ UNCHANGED <<plDec, pipelineVars>>
    /\ UNCHANGED notDecoder

\* BufferedInputPipe::sync entered from that produce(): its recv
DecoderInpRecv ==
    /\ DecoderNeedsInput
    /\ StageInpRecv("bytes")

\* run_combined_context_decoder: BitDecoder::new(input), whose bytes are there
DecoderNew ==
    /\ AtInput("decoder")
    /\ ~plDec.started
    /\ ~DecoderNeedsInput
    /\ plDec' = [started |-> TRUE, cd |-> CombinedContextDecoderNew(plTaken)]
    /\ UNCHANGED <<plTaken, plEnded, pipes, pipelineVars>>
    /\ UNCHANGED notDecoder

\* one iteration of the loop of CombinedContextDecoder::decode, whose bytes
\* are there: next_byte is then given to output.output()
DecoderDecode ==
    /\ AtInput("decoder")
    /\ plDec.started
    /\ ~DecoderNeedsInput
    /\ \E r \in {CdDecodeStep(plTaken, plDec.cd)} :
          /\ plDec' = [plDec EXCEPT !.cd = r.cd]
          /\ plTodo' = [plTodo EXCEPT !["decoder"] = IF r.eof THEN <<>> ELSE <<r.next_byte>>]
          /\ plStage' = [plStage EXCEPT !["decoder"] = IF r.eof THEN "eof" ELSE "run"]
    /\ UNCHANGED <<plTaken, plEnded, pipes>>
    /\ UNCHANGED <<plInput, plRead, plPrim, plSec, plSink>>
    /\ UNCHANGED notDecoder

DecoderOutput == StageOutput("decoder", "coded")

\* the eof branch: self.decoder.close()?; self.output.close()?
DecoderClose ==
    /\ plStage["decoder"] = "eof"
    /\ pipes["coded"].out.pc = "run"
    /\ \E p1 \in {OutClose(pipes["coded"])} :
          /\ pipes' = PipesAfterOut([pipes EXCEPT !["bytes"] = InpDrop(pipes["bytes"])],
                                    "coded", p1)
          /\ plStage' = [plStage EXCEPT !["decoder"] = AfterOut("eof", p1)]
    /\ UNCHANGED <<plInput, plRead, plPrim, plSec, plTodo, plSink>>
    /\ UNCHANGED notPipeline

DecoderThread ==
    \/ DecoderProduce
    \/ DecoderInpRecv
    \/ StageInpSend("bytes")
    \/ DecoderNew
    \/ DecoderDecode
    \/ DecoderOutput
    \/ DecoderClose
    \/ StageOutSend("coded")
    \/ StageOutRecv("coded")

DecodeFailNext ==
    \/ ReaderThread
    \/ DecoderThread
    \/ WriterThread
    \/ EncodeFault
    \/ EncodeThread

(***************************************************************************)
(* RangeSpec: a BitEncoder called with arbitrary (prediction, bit) pairs   *)
(* and closed, then a BitDecoder that reads the bytes the encoder wrote    *)
(* and is called with the same predictions in the same order.              *)
(***************************************************************************)
MaxRangeBits == 3

RangeIdle ==
    /\ rcPhase = "idle"
    /\ rcEnc = [low |-> U32Zero, high |-> U32Max, out |-> <<>>]
    /\ rcPairs = <<>>
    /\ rcDec = BitDecoderNew(<<>>)
    /\ rcDecoded = <<>>

\* BitEncoder::new
RangeInit ==
    /\ rcPhase = "encode"
    /\ rcEnc = [low |-> BitEncoderNew.low, high |-> BitEncoderNew.high, out |-> <<>>]
    /\ rcPairs = <<>>
    /\ rcDec = BitDecoderNew(<<>>)
    /\ rcDecoded = <<>>

\* one call of BitEncoder::bit(prediction, bit)
RangeEncodeBit ==
    /\ rcPhase = "encode"
    /\ Len(rcPairs) < MaxRangeBits
    /\ \E prediction \in Predictions, bit \in Bits :
          \E c \in {EncBit(rcEnc, prediction, bit)} :
             /\ rcEnc' = c
             /\ rcPairs' = Append(rcPairs,
                                  [prediction |-> prediction, bit |-> bit,
                                   low |-> c.low, high |-> c.high,
                                   emitted |-> Len(c.out) - Len(rcEnc.out)])
    /\ UNCHANGED <<rcPhase, rcDec, rcDecoded>>
    /\ UNCHANGED notRange

\* BitEncoder::close, and BitDecoder::new on the bytes written
RangeClose ==
    /\ rcPhase = "encode"
    /\ \E out \in {Append(rcEnc.out, EncCloseByte(rcEnc.low))} :
          /\ rcEnc' = [rcEnc EXCEPT !.out = out]
          /\ rcDec' = BitDecoderNew(out)
    /\ rcPhase' = "decode"
    /\ UNCHANGED <<rcPairs, rcDecoded>>
    /\ UNCHANGED notRange

\* one call of BitDecoder::bit(prediction), with the prediction of the
\* encoder's call of the same number
RangeDecodeBit ==
    /\ rcPhase = "decode"
    /\ Len(rcDecoded) < Len(rcPairs)
    /\ \E r \in {DecBit(rcEnc.out, rcDec, rcPairs[Len(rcDecoded) + 1].prediction)} :
          /\ rcDec' = r.d
          /\ rcDecoded' = Append(rcDecoded,
                                 [bit |-> r.bit, low |-> r.d.low, high |-> r.d.high,
                                  pos |-> r.d.pos, shifts |-> r.shifts])
    /\ UNCHANGED <<rcPhase, rcEnc, rcPairs>>
    /\ UNCHANGED notRange

RangeNext == RangeEncodeBit \/ RangeClose \/ RangeDecodeBit

(***************************************************************************)
(* BridgeSpec: BridgedContextInfo::new on a snapshot of the primary        *)
(* context, the PackedMessages the primary encoder makes from it for each  *)
(* outcome, PackedMessage::bit / byte called on other contexts, and the    *)
(* secondary encoder, which unpacks each message with get() and calls      *)
(* self.bit() for it.                                                      *)
(***************************************************************************)
\* the snapshots: bytes, match counts on both sides of the thresholds of
\* bit_context, hash values on both sides of the 0x3FFF mask
BridgeBytes == {0, 255}

BridgeMatchCounts == {0, 3, 4, 67, 68, 255}

BridgeHashes == {0, 16383, 16384, PRIMARY_CONTEXT_SIZE - 1}

BridgeInfos ==
    [previous_byte : BridgeBytes, first_byte : BridgeBytes, second_byte : BridgeBytes,
     third_byte : {0, 1, 255}, hash_value : BridgeHashes,
     match_count : BridgeMatchCounts]

\* context indices below SECONDARY_CONTEXT_SIZE, and those that are literal
\* contexts (multiples of 256)
PackContexts ==
    {0, 1, 255, 256, 65535, 65536, 4016127, 16384 * 256 - 1, 16384 * 256,
     SECONDARY_CONTEXT_SIZE - 256, SECONDARY_CONTEXT_SIZE - 1}

PackLiteralContexts == {c \in PackContexts : c % 256 = 0}

PackBytes == {0, 1, 128, 255}

BridgeIdle ==
    /\ brInfo = [previous_byte |-> 0, first_byte |-> 0, second_byte |-> 0, third_byte |-> 0,
                 hash_value |-> 0, match_count |-> 0]
    /\ brArgs = <<>>
    /\ brSent = <<>>
    /\ brGot = <<>>
    /\ brIndices = <<>>

BridgeInit ==
    /\ brInfo \in BridgeInfos
    /\ brArgs = <<>>
    /\ brSent = <<>>
    /\ brGot = <<>>
    /\ brIndices = <<>>

\* one iteration of run_primary_context_encoder's loop on the snapshot:
\* produce() returned Some(current_byte) and matching() the outcome, or
\* produce() returned None
BridgePrimary ==
    /\ brSent = <<>>
    /\ \/ \E current_byte \in PackBytes, matched \in ByteMatched :
             brSent' = PrimaryMessages(brInfo, current_byte, matched)
       \/ brSent' = EofMessages(brInfo)
    /\ UNCHANGED <<brInfo, brArgs, brGot, brIndices>>
    /\ UNCHANGED notBridge

\* PackedMessage::bit(context, bit)
BridgePackBit ==
    /\ brSent = <<>>
    /\ \E context \in PackContexts, bit \in Bits :
          /\ brArgs' = <<[kind |-> "Bit", index |-> context, value |-> bit]>>
          /\ brSent' = <<PackedBit(context, bit)>>
    /\ UNCHANGED <<brInfo, brGot, brIndices>>
    /\ UNCHANGED notBridge

\* PackedMessage::byte(context, byte)
BridgePackByte ==
    /\ brSent = <<>>
    /\ \E context \in PackLiteralContexts, byte \in PackBytes :
          /\ brArgs' = <<[kind |-> "Byte", index |-> context, value |-> byte]>>
          /\ brSent' = <<PackedByte(context, byte)>>
    /\ UNCHANGED <<brInfo, brGot, brIndices>>
    /\ UNCHANGED notBridge

\* SecondaryContextEncoder::encode on the next message: get(), then the
\* self.bit() calls of the message
BridgeSecondary ==
    /\ Len(brGot) < Len(brSent)
    /\ \E pm \in {brSent[Len(brGot) + 1]} :
          \E steps \in {MessageSteps(pm)} :
             /\ brGot' = Append(brGot, PackedGet(pm))
             /\ brIndices' = brIndices \o [k \in 1 .. Len(steps) |-> steps[k][1]]
    /\ UNCHANGED <<brInfo, brArgs, brSent>>
    /\ UNCHANGED notBridge

BridgeNext == BridgePrimary \/ BridgePackBit \/ BridgePackByte \/ BridgeSecondary

(***************************************************************************)
(* HashSpec: two PrimaryContexts of PRIMARY_CONTEXT_SIZE cells, each fed   *)
(* with matching() some bytes of its own and then both fed the same bytes. *)
(***************************************************************************)
MaxHashPrefix == 2

MaxHashTail == 6

HashBytes == {0, 255}

HashIdle ==
    /\ hshA = PrimaryNew
    /\ hshB = PrimaryNew
    /\ hshPre = <<<<>>, <<>>>>
    /\ hshTail = <<>>
    /\ hshTrail = <<>>

\* PrimaryContext::new, twice
HashInit == HashIdle

\* A.matching(next_byte) before the common bytes
HashFeedA ==
    /\ hshTail = <<>>
    /\ Len(hshPre[1]) < MaxHashPrefix
    /\ \E next_byte \in HashBytes :
          /\ hshA' = PrimaryMatching(PRIMARY_CONTEXT_SIZE, hshA, next_byte).pc
          /\ hshPre' = <<Append(hshPre[1], next_byte), hshPre[2]>>
    /\ UNCHANGED <<hshB, hshTail, hshTrail>>
    /\ UNCHANGED notHash

\* B.matching(next_byte) before the common bytes
HashFeedB ==
    /\ hshTail = <<>>
    /\ Len(hshPre[2]) < MaxHashPrefix
    /\ \E next_byte \in HashBytes :
          /\ hshB' = PrimaryMatching(PRIMARY_CONTEXT_SIZE, hshB, next_byte).pc
          /\ hshPre' = <<hshPre[1], Append(hshPre[2], next_byte)>>
    /\ UNCHANGED <<hshA, hshTail, hshTrail>>
    /\ UNCHANGED notHash

\* A.matching(next_byte) and B.matching(next_byte)
HashFeedBoth ==
    /\ Len(hshTail) < MaxHashTail
    /\ \E next_byte \in HashBytes :
          \E a \in {PrimaryMatching(PRIMARY_CONTEXT_SIZE, hshA, next_byte).pc},
             b \in {PrimaryMatching(PRIMARY_CONTEXT_SIZE, hshB, next_byte).pc} :
             /\ hshA' = a
             /\ hshB' = b
             /\ hshTail' = Append(hshTail, next_byte)
             /\ hshTrail' = Append(hshTrail, <<a.hash_value, b.hash_value>>)
    /\ UNCHANGED hshPre
    /\ UNCHANGED notHash

HashNext == HashFeedA \/ HashFeedB \/ HashFeedBoth

(***************************************************************************)
(* Specifications.  Each one runs one part of the program and leaves the   *)
(* state of the other parts at its initial value.                          *)
(***************************************************************************)
CoderSpecInit == CoderInit /\ HashIdle /\ RangeIdle /\ BridgeIdle /\ PipeIdle /\ PrimaryIdle /\ LiteralIdle /\ CodecIdle /\ PipelineIdle /\ JoinIdle /\ DecoderIdle /\ WriterIdle

CoderSpec == CoderSpecInit /\ [][CoderNext]_vars

PipeSpecInit == PipeInit /\ CoderInit /\ HashIdle /\ RangeIdle /\ BridgeIdle /\ PrimaryIdle /\ LiteralIdle /\ CodecIdle /\ PipelineIdle /\ JoinIdle /\ DecoderIdle /\ WriterIdle

PipeSpec == PipeSpecInit /\ [][PipeNext]_vars

\* threads are scheduled by the operating system: a thread that can take its
\* next step inside output(), close() or produce() eventually takes it
PipeFairSpec ==
    /\ PipeSpecInit
    /\ [][PipeNext]_vars
    /\ WF_vars(ProducerSend)
    /\ WF_vars(ProducerRecv)
    /\ WF_vars(ConsumerRecv)
    /\ WF_vars(ConsumerSend)
    /\ WF_vars(ConsumerProduce)

PrimarySpecInit == PrimaryInit /\ CoderInit /\ HashIdle /\ RangeIdle /\ BridgeIdle /\ PipeIdle /\ LiteralIdle /\ CodecIdle /\ PipelineIdle /\ JoinIdle /\ DecoderIdle /\ WriterIdle

PrimarySpec == PrimarySpecInit /\ [][PrimaryNext]_vars

LiteralSpecInit == LiteralInit /\ CoderInit /\ HashIdle /\ RangeIdle /\ BridgeIdle /\ PipeIdle /\ PrimaryIdle /\ CodecIdle /\ PipelineIdle /\ JoinIdle /\ DecoderIdle /\ WriterIdle

LiteralSpec == LiteralSpecInit /\ [][LiteralNext]_vars

CodecSpecInit == CodecInit /\ CoderInit /\ HashIdle /\ RangeIdle /\ BridgeIdle /\ PipeIdle /\ PrimaryIdle /\ LiteralIdle /\ PipelineIdle /\ JoinIdle /\ DecoderIdle /\ WriterIdle

CodecSpec == CodecSpecInit /\ [][CodecNext]_vars

DecodeSpecInit == DecodeInit /\ CoderInit /\ HashIdle /\ RangeIdle /\ BridgeIdle /\ PipeIdle /\ PrimaryIdle /\ LiteralIdle /\ PipelineIdle /\ JoinIdle /\ DecoderIdle /\ WriterIdle

\* the decoder thread is scheduled: while its loop has not returned it takes
\* its next iteration
DecodeFairSpec == DecodeSpecInit /\ [][DecodeNext]_vars /\ WF_vars(DecodeStep)

EncodeSpecInit ==
    EncodeInit /\ CoderInit /\ HashIdle /\ RangeIdle /\ BridgeIdle /\ PrimaryIdle /\ LiteralIdle /\ CodecIdle /\ JoinIdle /\ DecoderIdle /\ WriterIdle

EncodeSpec == EncodeSpecInit /\ [][EncodeNext]_vars

\* fair scheduling of the four threads
EncodeFairSpec ==
    /\ EncodeSpecInit
    /\ [][EncodeNext]_vars
    /\ WF_vars(ReaderThread)
    /\ WF_vars(PrimaryThread)
    /\ WF_vars(SecondaryThread)
    /\ WF_vars(WriterThread)

EncodeFailSpecInit ==
    EncodeFailInit /\ CoderInit /\ HashIdle /\ RangeIdle /\ BridgeIdle /\ PrimaryIdle /\ LiteralIdle /\ CodecIdle /\ DecoderIdle
    /\ WriterIdle

EncodeFailSpec == EncodeFailSpecInit /\ [][EncodeFailNext]_vars

ReaderFailSpecInit ==
    ReaderFailInit /\ CoderInit /\ HashIdle /\ RangeIdle /\ BridgeIdle /\ PrimaryIdle /\ LiteralIdle /\ CodecIdle /\ DecoderIdle
    /\ WriterIdle

ReaderFailSpec == ReaderFailSpecInit /\ [][ReaderFailNext]_vars

\* fair scheduling of the four threads and of the thread that called encode;
\* no failure is ever bound to happen
EncodeFailFairSpec ==
    /\ EncodeFailSpecInit
    /\ [][EncodeFailNext]_vars
    /\ WF_vars(ReaderThread)
    /\ WF_vars(PrimaryThread)
    /\ WF_vars(SecondaryThread)
    /\ WF_vars(WriterThread)
    /\ WF_vars(EncodeThread)

WriterSpecInit ==
    WriterInit /\ CoderInit /\ HashIdle /\ RangeIdle /\ BridgeIdle /\ PrimaryIdle /\ LiteralIdle /\ CodecIdle /\ PipelineIdle
    /\ JoinIdle /\ DecoderIdle

WriterSpec == WriterSpecInit /\ [][WriterNext]_vars

DecodeFailSpecInit ==
    DecodeFailInit /\ CoderInit /\ HashIdle /\ RangeIdle /\ BridgeIdle /\ PrimaryIdle /\ LiteralIdle /\ CodecIdle /\ WriterIdle

DecodeFailSpec == DecodeFailSpecInit /\ [][DecodeFailNext]_vars

\* every thread that can take a step eventually takes one; failures are
\* not forced
DecodeFailFairSpec ==
    /\ DecodeFailSpec
    /\ WF_vars(ReaderThread)
    /\ WF_vars(DecoderThread)
    /\ WF_vars(WriterThread)
    /\ WF_vars(EncodeThread)

RangeSpecInit ==
    RangeInit /\ CoderInit /\ HashIdle /\ BridgeIdle /\ PipeIdle /\ PrimaryIdle /\ LiteralIdle /\ CodecIdle /\ PipelineIdle
    /\ JoinIdle /\ DecoderIdle /\ WriterIdle

RangeSpec == RangeSpecInit /\ [][RangeNext]_vars

BridgeSpecInit ==
    BridgeInit /\ CoderInit /\ HashIdle /\ RangeIdle /\ PipeIdle /\ PrimaryIdle /\ LiteralIdle /\ CodecIdle
    /\ PipelineIdle /\ JoinIdle /\ DecoderIdle /\ WriterIdle

BridgeSpec == BridgeSpecInit /\ [][BridgeNext]_vars

HashSpecInit == HashInit /\ CoderInit /\ RangeIdle /\ BridgeIdle /\ PipeIdle /\ PrimaryIdle /\ LiteralIdle /\ CodecIdle /\ PipelineIdle /\ JoinIdle /\ DecoderIdle /\ WriterIdle

HashSpec == HashSpecInit /\ [][HashNext]_vars

(***************************************************************************)
(* Properties.                                                             *)
(***************************************************************************)
\* C8: the range-coder interval invariant.  Before every bit() call
\* low < high; inside the call low <= middle < high and low + delta does not
\* overflow 32 bits; when the call returns low < high and the top byte of
\* low differs from the top byte of high.
RangeCoderInterval ==
    /\ U32Lt(low, high)
    /\ ~SameTopByte(low, high)
    /\ coderLast.called =>
          /\ U32Lt(coderLast.low, coderLast.high)
          /\ U32Le(coderLast.low, coderLast.middle)
          /\ U32Lt(coderLast.middle, coderLast.high)
          /\ coderLast.carry = 0

\* C8 witness: a bit() call that narrowed the interval to a single point,
\* so that flush shifted bytes out, has returned
RangeCoderIntervalWitness ==
    /\ coderLast.called
    /\ coderLast.middle = coderLast.low
    /\ Len(encOut) >= 4
    /\ coderBits >= 2

IsPrefix(a, b) == Len(a) <= Len(b) /\ SubSeq(b, 1, Len(a)) = a

\* the position in got of the first None (Len(got) + 1 when there is none)
FirstNone ==
    IF NoneCount = 0 THEN Len(got) + 1
    ELSE CHOOSE k \in 1 .. Len(got) :
            got[k] = <<>> /\ \A j \in 1 .. k - 1 : got[j] # <<>>

\* the values produce() returned before its first None
GotValues == [k \in 1 .. FirstNone - 1 |-> got[k][1]]

\* close() has been called on the producer
CloseCalled == ThePipe.out.closing \/ ThePipe.out.pc = "closed"

\* C2: pipe FIFO with no loss or duplication.  Under every interleaving the
\* values produce() has returned are a prefix of the values passed to
\* output(), and when produce() returns its first None they are exactly the
\* values passed to output(), in the same order.
PipeFifo ==
    /\ IsPrefix(GotValues, sent)
    /\ NoneCount > 0 => GotValues = sent

\* C2 witness: a run of three output() calls through a pipe of capacity 2
\* (one full buffer, one partial buffer flushed by close) has been drained
PipeFifoWitness ==
    /\ ThePipe.size = 2
    /\ Len(sent) = 3
    /\ NoneCount = 1
    /\ GotValues = <<1, 2, 1>>

\* C3: end of stream.  A None is returned only after close() was called and
\* every element was returned; after a None every later produce() returns
\* None without entering sync (so without blocking); and once close() has
\* been called the consumer's produce() eventually returns None.
PipeEndOfStream ==
    /\ [](NoneCount > 0 =>
            /\ CloseCalled
            /\ Len(GotValues) = Len(sent)
            /\ \A k \in FirstNone .. Len(got) : got[k] = <<>>
            /\ InpReadEnabled(ThePipe)
            /\ InpProduceResult(ThePipe) = <<>>)
    /\ (CloseCalled ~> NoneCount > 0)

\* C3 witness: close() flushed a partial buffer and produce() has returned
\* None twice
PipeEndOfStreamWitness ==
    /\ ThePipe.size = 2
    /\ Len(sent) = 1
    /\ ThePipe.out.pc = "closed"
    /\ Len(got) = 3
    /\ NoneCount = 2

\* C7: primary symmetry.  After every step the context driven with
\* matched(b, o) has the same previous_byte, hash_value and cells (first,
\* second, third, state index) and the same get_info() snapshot as the
\* context driven with matching(b).
PrimarySymmetry ==
    /\ primB.previous_byte = primA.previous_byte
    /\ primB.hash_value = primA.hash_value
    /\ primB.context = primA.context
    /\ PrimaryGetInfo(primB) = PrimaryGetInfo(primA)

\* C7 witness: a MatchSecond has been replayed on a cell that held three
\* different bytes
PrimarySymmetryWitness ==
    /\ primSteps >= 4
    /\ primLast = MatchSecond
    /\ PrimaryCell(primB).third # PrimaryCell(primB).second
    /\ PrimaryCell(primB).third # 0

\* C9: literal-byte round trip.  For every byte value and base context the
\* decoder's byte(ctx), fed the bits the encoder's byte(ctx, value) codes,
\* queries the same context indices as the encoder, in the same order, and
\* after the eighth bit returns the original value.
LiteralRoundTrip ==
    /\ \A k \in 1 .. Len(litIndices) :
          litIndices[k] = EncByteSteps(litCtx, litByte)[k][1]
    /\ litStep = 8 =>
          /\ Len(litIndices) = 8
          /\ DecByteResult([high |-> litHigh, low |-> litLow, step |-> litStep]) = litByte

\* C9 witness: the byte 0xA5 has been decoded at the last literal context
LiteralRoundTripWitness ==
    /\ litStep = 8
    /\ litByte = 165
    /\ litCtx = 16383 * 256
    /\ litHigh = 26
    /\ litLow = 21

\* C1: round trip.  The bytes the decoder passes to output() are at every
\* moment a prefix of the input that was encoded, and when the decoder has
\* returned at the end-of-stream marker they are exactly the input.
RoundTrip ==
    /\ cdcPhase \in {"decode", "done"} => IsPrefix(cdcOut, cdcInput)
    /\ cdcPhase = "done" => cdcOut = cdcInput

\* an input that does round-trip: the decoder has returned with the input
RoundTripWitness ==
    /\ cdcPhase = "done"
    /\ cdcLast.eof
    /\ cdcOut = cdcInput

\* the encoder's half of C6: in the outcomes the primary encoder has sent, a
\* NoMatch whose literal is the cell's first_byte is the end-of-stream marker,
\* and the marker is the last outcome
EncoderMarkerUnique ==
    \A k \in 1 .. Len(cdcTranscript) :
        LET o == cdcTranscript[k]
        IN  /\ (o.matched = NoMatch /\ o.literal = o.first_byte) <=> o.eof
            /\ o.eof => k = Len(cdcTranscript)

\* the decoder's half of C6: the decoder returns exactly at the marker, after
\* as many bytes as the input has, and never decodes beyond it
DecoderStopsAtMarker ==
    /\ cdcPhase \in {"decode", "done"} => Len(cdcOut) <= Len(cdcInput)
    /\ cdcLast.eof => (cdcPhase = "done" /\ Len(cdcOut) = Len(cdcInput))

\* C6: end-of-stream unambiguity.  A NoMatch with literal = first_byte occurs
\* in the encoder's message stream exactly once, as the final marker, and the
\* decoder terminates at exactly this marker without an output byte for it.
EofUnambiguous == EncoderMarkerUnique /\ DecoderStopsAtMarker

\* C5: decode terminates.  On every stream, with the bytes missing past its
\* end read as 0, the decoder's loop eventually returns at its EOF exit.
DecodeTerminates == <>(cdcPhase = "done")

\* C4: encode terminates without deadlock.  Under fair scheduling of the
\* four threads, for every input, every buffer size and every pattern of
\* short reads and writes, every thread eventually returns and none of them
\* ever returns an Err.
EncodeTerminates ==
    /\ <>[]AllReturned
    /\ [](\A t \in Stages : plStage[t] # "failed")

\* a run on a non-empty input in which all four threads have returned
EncodeTerminatesWitness ==
    /\ AllReturned
    /\ plInput # <<>>
    /\ \A i \in PipeIds : ~pipes[i].out.alive /\ ~pipes[i].inp.alive

\* C10: determinism across transport parameters.  What the sink has
\* received is at every moment a prefix of the bytes the two encoders
\* compute from the input alone, and is all of them once the file writer
\* has returned, whatever IO_BUFFER_SIZE and MESSAGE_BUFFER_SIZE are, however
\* the source splits its reads and however the threads interleave.
EncodeDeterministic ==
    \E expected \in {EncodeAll(plInput)} :
       /\ IsPrefix(plSink, expected)
       /\ plStage["writer"] = "returned" => plSink = expected

\* the writer has returned on a two-byte input that went through buffers of
\* two bytes and one message
EncodeDeterministicWitness ==
    /\ plStage["writer"] = "returned"
    /\ Len(plInput) = 2
    /\ pipes["bytes"].size = 2
    /\ pipes["messages"].size = 1
    /\ plSink = EncodeAll(plInput)

\* every thread has ended and the call of encode has ended
EncodeEnded == plReturn # NoResult /\ \A t \in Stages : Finished(t)

\* the encode half of C11: whatever fails, every thread ends and encode ends
EncodeCancellation == <>[]EncodeEnded

\* the Result of the first thread in stage order that did not return Ok, or
\* Ok when all four did
RECURSIVE FirstFailureFrom(_)
FirstFailureFrom(k) ==
    IF k > Len(StageOrder) THEN OkResult
    ELSE IF plStage[StageOrder[k]] # "returned" THEN ThreadJoin(StageOrder[k])
    ELSE FirstFailureFrom(k + 1)

FirstFailure == FirstFailureFrom(1)

\* C12: error selection.  When encode has ended, it has returned the error
\* of the first failing thread in stage order (reader, primary encoder,
\* secondary encoder, writer), and Ok only when every thread returned Ok.
ErrorSelection == plReturn # NoResult => plReturn = FirstFailure

\* the part of C12 that the code keeps: a value that encode returns is the
\* error of the first failing thread in stage order, or Ok when none failed
ReturnedErrorIsFirst == plReturn \notin {NoResult, Unwind} => plReturn = FirstFailure

\* a thread ended with the Err of reader.read() or writer.write(), and no
\* thread panicked
SingleIoError ==
    /\ Cardinality({t \in Stages : plStage[t] = "io"}) = 1
    /\ \A t \in Stages : plStage[t] # "panic"

\* C13: the root cause surfaces.  When a single thread failed with an I/O
\* error of the source or the sink, the error that encode returns is that I/O
\* error, not the pipe error another thread met as a consequence.
RootCauseSurfaces == (plReturn # NoResult /\ SingleIoError) => plReturn.kind = "io"

\* C14: worker panics become error values.  Whatever the outcomes of the
\* four threads, the call of encode ends by returning a Result: it never ends
\* in a panic.
PanicsBecomeErrors == plReturn # Unwind

(***************************************************************************)
(* The scenario ABCABCABCABC.                                              *)
(***************************************************************************)
\* the input read so far is the first k or more bytes of ABCABCABCABC
AbcRead(k) ==
    /\ k <= Len(cdcInput)
    /\ Len(cdcInput) <= Len(AbcInput)
    /\ cdcInput = SubSeq(AbcInput, 1, Len(cdcInput))

\* C18 as stated: on the input ABCABCABCABC the outcome of matching() for
\* each of the bytes 4 to 12 is MatchThird or MatchSecond.
AbcNeverNoMatch ==
    \A k \in 4..12 : AbcRead(k) => cdcTranscript[k].matched \in {MatchThird, MatchSecond}

\* C18: on the input ABCABCABCABC the outcome of matching() is NoMatch for
\* each of the bytes 1 to 8, whose hashed contexts are all seen for the first
\* time, and MatchFirst for each of the bytes 9 to 12, whose contexts are
\* those of the bytes 6, 7, 8 and 6 again.
AbcOutcomes ==
    \A k \in 1..12 :
        AbcRead(k) => cdcTranscript[k].matched = IF k <= 8 THEN NoMatch ELSE MatchFirst

AbcOutcomesWitness == AbcRead(12) /\ cdcTranscript[12].matched = MatchFirst

BitMessage(index, bit) == [kind |-> "Bit", index |-> index, value |-> bit]

ByteMessage(index, byte) == [kind |-> "Byte", index |-> index, value |-> byte]

\* the coding table: the messages for the outcome `matched` of the byte
\* `byte` under the snapshot `info`
CodingTable(info, matched, byte) ==
    CASE matched = MatchFirst ->
           <<BitMessage(FirstContext(info), 0)>>
      [] matched = MatchSecond ->
           <<BitMessage(FirstContext(info), 1), BitMessage(SecondContext(info), 1),
             BitMessage(ThirdContext(info), 0)>>
      [] matched = MatchThird ->
           <<BitMessage(FirstContext(info), 1), BitMessage(SecondContext(info), 1),
             BitMessage(ThirdContext(info), 1)>>
      [] OTHER ->
           <<BitMessage(FirstContext(info), 1), BitMessage(SecondContext(info), 0),
             ByteMessage(LiteralContext(info), byte)>>

\* the <<context_index, bit>> pairs of a sequence of calls
CallPairs(calls) == [i \in 1 .. Len(calls) |-> <<calls[i].index, calls[i].bit>>]

\* the <<context_index, bit>> pairs that the messages of the table lead to
TablePairs(info, matched, byte) ==
    LET t == CodingTable(info, matched, byte)
    IN  IF matched = NoMatch
        THEN <<<<t[1].index, t[1].value>>, <<t[2].index, t[2].value>>>>
             \o EncByteSteps(t[3].index, t[3].value)
        ELSE [i \in 1 .. Len(t) |-> <<t[i].index, t[i].value>>]

\* the messages sent for every byte read are those of the table, under the
\* snapshot taken before the byte's cell is updated
EncoderFollowsTable ==
    \A k \in 1 .. Len(cdcInput) :
        LET e == cdcTranscript[k]
        IN  [i \in 1 .. Len(e.messages) |-> PackedGet(e.messages[i])]
                = CodingTable(e.info, e.matched, cdcInput[k])

\* the decoder's next iteration reads one of the four patterns of the table
\* and returns the outcome and the byte of that pattern
DecoderFollowsTable ==
    cdcPhase = "decode" =>
        LET r == CdDecodeStep(cdcStream, cdcDec)
            info == PrimaryGetInfo(cdcDec.primary_context)
            byte == CASE r.matched = MatchFirst -> info.first_byte
                      [] r.matched = MatchSecond -> info.second_byte
                      [] r.matched = MatchThird -> info.third_byte
                      [] OTHER -> r.next_byte
        IN  /\ r.next_byte = byte
            /\ CallPairs(CdStepCalls(cdcStream, cdcDec)) = TablePairs(info, r.matched, byte)
            /\ r.eof <=> (r.matched = NoMatch /\ byte = info.first_byte)

\* on the pattern the encoder sent for a byte, under the same snapshot, the
\* decoder returns the encoder's outcome and the byte
DecoderInvertsTable ==
    \A k \in 1 .. Len(cdcInput) :
        (/\ cdcPhase = "decode"
         /\ Len(cdcOut) + 1 = k
         /\ PrimaryGetInfo(cdcDec.primary_context) = cdcTranscript[k].info
         /\ CallPairs(CdStepCalls(cdcStream, cdcDec)) = CallPairs(cdcTranscript[k].calls))
        => LET r == CdDecodeStep(cdcStream, cdcDec)
           IN  /\ ~r.eof
               /\ r.matched = cdcTranscript[k].matched
               /\ r.next_byte = cdcInput[k]

\* C20: for each input byte the primary encoder emits exactly the messages
\* of the coding table (0 for MatchFirst; 1, 1, 0 for MatchSecond; 1, 1, 1
\* for MatchThird; 1, 0 and the literal byte for NoMatch) at the contexts of
\* the snapshot taken before the cell is updated, and the decoder maps the
\* same bit patterns back to the same outcome and byte.
PerByteCodingTable ==
    /\ EncoderFollowsTable
    /\ DecoderFollowsTable
    /\ DecoderInvertsTable

\* the decoder is about to read the pattern 1, 1, 1 that the encoder sent
\* for a MatchThird byte
PerByteCodingTableWitness ==
    /\ cdcPhase = "decode"
    /\ Len(cdcOut) < Len(cdcInput)
    /\ cdcTranscript[Len(cdcOut) + 1].matched = MatchThird
    /\ CallPairs(CdStepCalls(cdcStream, cdcDec))
           = CallPairs(cdcTranscript[Len(cdcOut) + 1].calls)
    /\ CdDecodeStep(cdcStream, cdcDec).matched = MatchThird
    /\ \E k \in 1 .. Len(cdcOut) : cdcTranscript[k].matched = NoMatch

\* the decoder is at its k-th iteration and the encoder made a k-th one
DecoderAt(k) ==
    /\ cdcPhase = "decode"
    /\ k = Len(cdcOut) + 1
    /\ k <= Len(cdcTranscript)

\* C19: the calls of get_info/update that the combined decoder makes while
\* decoding the stream are, iteration by iteration, the calls the secondary
\* encoder made for the same byte (or for the end-of-stream marker): the
\* same context index, the same bit and the same prediction, in order.
SameSecondaryCalls ==
    \A k \in 1 .. Len(cdcTranscript) :
        DecoderAt(k) => CdStepCalls(cdcStream, cdcDec) = cdcTranscript[k].calls

\* as long as the decoder has returned the bytes of the input, each of its
\* calls up to and including the first one whose bit differs from the
\* encoder's has the encoder's context index and prediction
CallsAgreeUpToFirstWrongBit ==
    \A k \in 1 .. Len(cdcTranscript) :
        (DecoderAt(k) /\ cdcOut = SubSeq(cdcInput, 1, Len(cdcOut))) =>
            LET dec == CdStepCalls(cdcStream, cdcDec)
                enc == cdcTranscript[k].calls
            IN  \A j \in 1 .. Len(dec) :
                    (\A i \in 1 .. j - 1 : i <= Len(enc) /\ dec[i].bit = enc[i].bit) =>
                        /\ j <= Len(enc)
                        /\ dec[j].index = enc[j].index
                        /\ dec[j].prediction = enc[j].prediction

(***************************************************************************)
(* Writes on a broken pipe, and short writes of the sink.                  *)
(***************************************************************************)
IsWrite(r) == r.call \in {"output", "receive_from"}

\* C15: a write (output or receive_from) made when the consumer endpoint
\* is gone fails with the BrokenPipe error, the write whose hand-off of the
\* buffer first detects the closed pipe included.
BrokenPipeOnWrite ==
    \A k \in 1 .. Len(wrResults) :
        (IsWrite(wrResults[k]) /\ wrResults[k].gone) => wrResults[k].result = "BrokenPipe"

\* once a call has returned an Err, every later write returns BrokenPipe
\* and nothing more reaches the sink; a call fails only when the consumer
\* is gone
LaterWritesBroken ==
    /\ \A j, k \in 1 .. Len(wrResults) :
          (j < k /\ wrResults[j].result # "Ok" /\ IsWrite(wrResults[k]))
              => wrResults[k].result = "BrokenPipe"
    /\ \A k \in 1 .. Len(wrResults) :
          wrResults[k].result # "Ok" => ~ThePipe.inp.alive /\ wrStage = "io"

StageFailed == \E t \in DOMAIN plStage : plStage[t] \in {"failed", "io", "panic"}

\* every thread has ended and the call has returned or unwound
PipelineEnded ==
    /\ \A t \in DOMAIN plStage : Finished(t)
    /\ plReturn # NoResult

\* C11: once one thread of the pipeline has returned an error or panicked,
\* every other thread eventually ends and the scope join completes: no
\* thread stays blocked or running forever.
CancellationLive == StageFailed ~> PipelineEnded

\* decode returns when no failure is injected
DecodeReturnsWithoutFailure == (plFaults = 0) => <>(PipelineEnded /\ plReturn = OkResult)

\* what keeps decode running after a failure of the reader: the decoder has
\* seen the end of its input without the end-of-stream marker
DecoderPastEnd ==
    /\ plStage["reader"] \in {"io", "panic"}
    /\ plEnded
    /\ plStage["decoder"] = "run"

(***************************************************************************)
(* The final byte of the stream and the end-of-stream marker.              *)
(***************************************************************************)
\* the decoder has returned at the marker
DecoderAtMarker == cdcPhase = "done" /\ cdcLast.eof /\ Len(cdcStream) > 0

\* the number of bytes of the stream the BitDecoder has taken
DecoderConsumed == cdcDec.decoder.pos

\* C21: when the combined decoder detects the end-of-stream marker on a
\* stream written by encode, it has not consumed the final byte, the one
\* BitEncoder::close wrote.
StopsBeforePadding == DecoderAtMarker => DecoderConsumed < Len(cdcStream)

\* C21, as the program behaves: the BitDecoder takes four bytes when it is
\* constructed and one for every byte shifted out, so when the combined
\* decoder detects the marker it has consumed every byte of the stream, the
\* final byte included.
PaddingConsumedAtMarker == DecoderAtMarker => DecoderConsumed = Len(cdcStream)

PaddingConsumedAtMarkerWitness ==
    /\ DecoderAtMarker
    /\ Len(cdcStream) > 4
    /\ Len(cdcOut) > 0
    /\ DecoderConsumed = Len(cdcStream)

(***************************************************************************)
(* The range encoder and the range decoder side by side.                   *)
(***************************************************************************)
\* the decoder's first k bits are the encoder's
SameBitsUpTo(k) == \A j \in 1 .. k : rcDecoded[j].bit = rcPairs[j].bit

\* the bytes the encoder's normalisation has emitted in its first k calls
RECURSIVE EmittedUpTo(_)
EmittedUpTo(k) == IF k = 0 THEN 0 ELSE EmittedUpTo(k - 1) + rcPairs[k].emitted

Min(a, b) == IF a < b THEN a ELSE b

\* C22: the range encoder and decoder stay in lockstep.  On the same
\* predictions, as long as the bits the decoder decodes are the encoder's,
\* the decoder's (low, high) equal the encoder's after every bit and the
\* decoder shifts in one input byte for each byte the encoder emitted while
\* normalising: it has taken the four bytes of its construction and one per
\* emitted byte, as far as the stream goes (a byte past its end is 0).
RangeLockstep ==
    \A k \in 1 .. Len(rcDecoded) :
       SameBitsUpTo(k) =>
          /\ rcDecoded[k].low = rcPairs[k].low
          /\ rcDecoded[k].high = rcPairs[k].high
          /\ rcDecoded[k].shifts = rcPairs[k].emitted
          /\ rcDecoded[k].pos = Min(Len(rcEnc.out), 4 + EmittedUpTo(k))

\* C22 witness: the decoder has decoded every bit as the encoder coded it,
\* the encoder emitted bytes in at least two calls, and the decoder has taken
\* bytes beyond the four of its construction
RangeLockstepWitness ==
    /\ rcPhase = "decode"
    /\ Len(rcDecoded) = Len(rcPairs)
    /\ Len(rcDecoded) >= 2
    /\ SameBitsUpTo(Len(rcDecoded))
    /\ Cardinality({k \in 1 .. Len(rcPairs) : rcPairs[k].emitted > 0}) >= 2
    /\ rcDec.pos > 4

\* every bit is decoded as it was coded (not an invariant: the bits coded
\* last may come out wrong, since close() writes one byte of low only)
RangeBitsDecoded == SameBitsUpTo(Len(rcDecoded))

(***************************************************************************)
(* The secondary context indices.                                          *)
(***************************************************************************)
\* the primary encoder's loop has run an iteration on the snapshot
FromSnapshot == brArgs = <<>> /\ brSent # <<>>

\* the four indices of the snapshot, and the indices of the self.bit() calls
\* made for its messages, are below n
IndicesBelow(n) ==
    FromSnapshot =>
       /\ \A c \in {FirstContext(brInfo), SecondContext(brInfo), ThirdContext(brInfo),
                    LiteralContext(brInfo)} : c \in 0 .. n - 1
       /\ \A k \in 1 .. Len(brIndices) : brIndices[k] \in 0 .. n - 1

\* C23: for every snapshot of the primary context, first_context,
\* second_context, third_context and literal_context and every index that
\* literal-byte coding touches lie in [0, N) with N = 4,016,128.
IndicesInStatedRange == IndicesBelow(4016128)

\* C23 with the value the expression has: N = 0x4000 * 256 + (1024 + 32) * 768
\* = 5,005,312 = SECONDARY_CONTEXT_SIZE.
IndicesInRange == IndicesBelow(SECONDARY_CONTEXT_SIZE)

\* C23 witness: a literal has been coded at the largest literal context, its
\* last index is the largest literal index, and the snapshot's third_context
\* is the last index of the table
IndicesInRangeWitness ==
    /\ FromSnapshot
    /\ Len(brSent) = 3
    /\ Len(brGot) = 3
    /\ brGot[3] = [kind |-> "Byte", index |-> 16383 * 256, value |-> 255]
    /\ brIndices[Len(brIndices)] = 16384 * 256 - 1
    /\ ThirdContext(brInfo) = SECONDARY_CONTEXT_SIZE - 1

(***************************************************************************)
(* PackedMessage.                                                          *)
(***************************************************************************)
\* get() returns the Message that bit() / byte() was called with
DirectRoundTrip ==
    (brArgs # <<>> /\ brGot # <<>>) => brGot = brArgs

\* the messages of an iteration of the primary encoder's loop come out of
\* get() with the kinds and contexts they were made with: a bit at
\* first_context, a bit at second_context, then a byte at literal_context
\* after the bit 0 or a bit at third_context after the bit 1
SnapshotRoundTrip ==
    FromSnapshot =>
       \A k \in 1 .. Len(brGot) :
          CASE k = 1 -> brGot[1].kind = "Bit" /\ brGot[1].index = FirstContext(brInfo)
            [] k = 2 -> brGot[2].kind = "Bit" /\ brGot[2].index = SecondContext(brInfo)
            [] OTHER -> IF brGot[2].value = 0
                        THEN brGot[3].kind = "Byte" /\ brGot[3].index = LiteralContext(brInfo)
                        ELSE brGot[3].kind = "Bit" /\ brGot[3].index = ThirdContext(brInfo)

\* C24: the packed message round trip.  For every context index c below N
\* and bit b, PackedMessage::bit(c, b).get() is Message::Bit(c, b); for
\* every multiple c of 256 below N and byte v, PackedMessage::byte(c, v).get()
\* is Message::Byte(c, v); no bit message comes out as a byte message or a
\* byte message as a bit message.
PackedRoundTrip == DirectRoundTrip /\ SnapshotRoundTrip

\* C24 witness: the bit 1 at the last index of the table and the byte 255
\* at the last multiple of 256 below N have come back from get()
PackedRoundTripWitness ==
    /\ brGot # <<>>
    /\ brGot = brArgs
    /\ \/ brGot[1] = [kind |-> "Bit", index |-> SECONDARY_CONTEXT_SIZE - 1, value |-> 1]
       \/ brGot[1] = [kind |-> "Byte", index |-> SECONDARY_CONTEXT_SIZE - 256, value |-> 255]

(***************************************************************************)
(* The cell update policy.                                                 *)
(***************************************************************************)
\* the outcome the policy gives for next_byte on the cell old
PolicyOutcome(old, next_byte) ==
    CASE old.first = next_byte -> MatchFirst
      [] old.first # next_byte /\ old.second = next_byte -> MatchSecond
      [] old.first # next_byte /\ old.second # next_byte /\ old.third = next_byte -> MatchThird
      [] OTHER -> NoMatch

\* the bytes <<first, second, third>> the policy gives the cell
PolicyBytes(old, next_byte, matched) ==
    CASE matched = MatchFirst -> <<old.first, old.second, old.third>>
      [] matched = MatchSecond -> <<next_byte, old.first, old.third>>
      [] OTHER -> <<next_byte, old.first, old.second>>

\* the state index the policy gives the cell
PolicyState(old, matched) ==
    LET hs == HistoryStateTable[old.state + 1]
    IN  CASE matched = MatchFirst -> hs.next_if_first
          [] matched = MatchSecond -> hs.next_if_second
          [] matched = MatchThird -> hs.next_if_third
          [] OTHER -> hs.next_if_miss

\* a call of matching(next_byte) on the context primA: the cell it was made
\* on, before and after
PolicyStep ==
    LET old == PrimaryCell(primA)
        next_byte == primA'.previous_byte
        new == Get(primA'.context, primA.hash_value, CellDefault)
    IN  /\ primLast' = PolicyOutcome(old, next_byte)
        /\ <<new.first, new.second, new.third>> = PolicyBytes(old, next_byte, primLast')
        /\ new.state = PolicyState(old, primLast')
        /\ new.first = next_byte
        /\ \A h \in DOMAIN primA'.context :
              h # primA.hash_value => /\ h \in DOMAIN primA.context
                                      /\ primA'.context[h] = primA.context[h]

\* C25: the cell update policy.  matching(next_byte) classifies by the first
\* hit in the order first, second, third, else NoMatch; MatchFirst keeps the
\* bytes of the cell, MatchSecond gives (next_byte, old first, old third),
\* MatchThird and NoMatch give (next_byte, old first, old second); the state
\* index becomes the old state's next_if_first / next_if_second /
\* next_if_third / next_if_miss; the first byte of the updated cell is
\* next_byte, and no other cell changes.
CellUpdatePolicy == [][PolicyStep]_vars

\* C25 witness: with one cell (SIZE = 1), a MatchThird has been made on a
\* cell of three different bytes
CellUpdatePolicyWitness ==
    /\ primSize = 1
    /\ primLast = MatchThird
    /\ PrimaryCell(primA).first = primA.previous_byte
    /\ PrimaryCell(primA).second # PrimaryCell(primA).third
    /\ PrimaryCell(primA).second # PrimaryCell(primA).first
    /\ PrimaryCell(primA).third # PrimaryCell(primA).first

(***************************************************************************)
(* The two buffers of a pipe.                                              *)
(***************************************************************************)
\* 1 if the slot holds the buffer b
Holds(slot, b) == IF slot = b THEN 1 ELSE 0

\* how often the producer endpoint, the forward channel, the consumer
\* endpoint and the back channel hold the buffer b
ProducerHolds(p, b) == Holds(p.out.buffer, b) + Holds(p.out.held, b)

ForwardHolds(p, b) == Cardinality({k \in 1 .. Len(p.fwd) : p.fwd[k].buffer = b})

ConsumerHolds(p, b) == Holds(p.inp.buffer, b) + Holds(p.inp.held, b)

BackHolds(p, b) == Cardinality({k \in 1 .. Len(p.back) : p.back[k] = b})

Holders(p, b) == ProducerHolds(p, b) + ForwardHolds(p, b) + ConsumerHolds(p, b) + BackHolds(p, b)

\* C26: buffer ownership in a pipe.  While both endpoints are alive there
\* are exactly two buffers and each is held by exactly one of the producer
\* endpoint, the forward channel, the consumer endpoint and the back
\* channel; in no state is a buffer held by both endpoints.
BufferOwnership ==
    \A i \in DOMAIN pipes :
       \A b \in 1 .. 2 :
          /\ Holders(pipes[i], b) <= 1
          /\ (pipes[i].out.alive /\ pipes[i].inp.alive) => Holders(pipes[i], b) = 1
          /\ ~(ProducerHolds(pipes[i], b) > 0 /\ ConsumerHolds(pipes[i], b) > 0)

\* C26 witness: both endpoints are alive, the buffers have changed sides and
\* the producer has filled the consumer's first buffer and sent it
BufferOwnershipWitness ==
    /\ ThePipe.out.alive
    /\ ThePipe.inp.alive
    /\ ThePipe.inp.buffer = 1
    /\ ForwardHolds(ThePipe, 2) = 1
    /\ ThePipe.out.pc = "recv"

(***************************************************************************)
(* The debug assertions of the pipe.                                       *)
(***************************************************************************)
\* BufferedOutputPipe: index < SIZE wherever output() / receive_from() can
\* start or has returned Ok; index in 1..SIZE inside sync() before its send;
\* every (buffer, length) on the forward channel has its length in 1..SIZE
OutAssertions(p) ==
    /\ (p.out.pc = "run" /\ p.out.buffer # None) => p.out.index \in 0 .. p.size - 1
    /\ p.out.pc = "send" => (p.out.held # None /\ p.out.index \in 1 .. p.size)
    /\ \A k \in 1 .. Len(p.fwd) : p.fwd[k].length \in 1 .. p.size

\* BufferedInputPipe: index <= length <= SIZE; sync() is entered with
\* index = length and a buffer; a received buffer has its length in 1..SIZE
\* and is read from index 0; an element is read at an index below length
InpAssertions(p) ==
    /\ p.inp.index <= p.inp.length
    /\ p.inp.length <= p.size
    /\ InpRecvEnabled(p) => (p.inp.buffer # None /\ p.inp.index = p.inp.length)
    /\ p.inp.pc = "send" => (p.inp.index = 0 /\ p.inp.length \in 1 .. p.size)
    /\ (InpReadEnabled(p) /\ p.inp.buffer # None) => p.inp.index < p.inp.length

\* C27: the debug assertions of the pipe hold in every reachable state under
\* every interleaving, for the producer (output, receive_from, sync, close)
\* and for the consumer (produce, transfer_to, sync).
PipeAssertions ==
    \A i \in DOMAIN pipes : OutAssertions(pipes[i]) /\ InpAssertions(pipes[i])

\* C27 witness: with buffers of two bytes, a full buffer of the file reader
\* has reached the primary encoder, the primary encoder is inside close(),
\* and the file writer is in the middle of a buffer after a short write
PipeAssertionsWitness ==
    /\ pipes["bytes"].size = 2
    /\ pipes["bytes"].inp.length = 2
    /\ plRead = 2
    /\ pipes["coded"].inp.buffer # None
    /\ pipes["coded"].inp.index = 1
    /\ pipes["coded"].inp.length = 2
    /\ pipes["messages"].out.closing

\* the elements given to output() that produce() has not yet returned
InFlight == Len(sent) - Cardinality({k \in 1 .. Len(got) : got[k] # <<>>})

\* the two sends of a pipe find their one-slot channel empty
SendsFindRoom(p) ==
    /\ p.out.pc = "send" => Len(p.fwd) = 0
    /\ p.inp.pc = "send" => Len(p.back) = 0
    /\ Len(p.fwd) <= 1

\* C28: whenever the producer is at the send of sync() the forward channel is
\* empty, whenever the consumer is at the send of its sync() the back channel
\* is empty, the forward channel never holds more than one buffer, and the
\* number of elements output but not yet produced never exceeds 2 * SIZE
SendNeverBlocks ==
    /\ \A i \in DOMAIN pipes : SendsFindRoom(pipes[i])
    /\ pipes # <<>> => InFlight <= 2 * ThePipe.size

\* C28 witness: with SIZE = 1 the producer is at its second send with the
\* channel empty while the consumer still has the first element unread, so
\* 2 * SIZE elements are in flight
SendNeverBlocksWitness ==
    /\ pipes # <<>>
    /\ ThePipe.size = 1
    /\ ThePipe.out.pc = "send"
    /\ ThePipe.fwd = <<>>
    /\ ThePipe.back = <<>>
    /\ got = <<>>
    /\ InFlight = 2

\* the position in the two trees that the k-th bit of a byte is coded at: for
\* k <= 4 the bits of the high nibble coded so far, for k > 4 the high nibble
\* and the bits of the low nibble coded so far
TreePosition(byte, k) ==
    IF k <= 4
    THEN <<"high", k, (byte \div 16) \div (2 ^ (5 - k))>>
    ELSE <<"low", byte \div 16, k, (byte % 16) \div (2 ^ (9 - k))>>

\* the first, second and third context indices of the snapshots
BitContextIndices ==
    UNION {{FirstContext(info), SecondContext(info), ThirdContext(info)} : info \in BridgeInfos}

\* the offsets of the k-th bit lie in the range of its tree
OffsetInTree(index, k) ==
    /\ k <= 4 => index - litCtx \in 1 .. 15
    /\ k > 4 => index - litCtx \in 16 .. 255

\* C29: the context indices that the encoder's and the decoder's byte(ctx)
\* use are ctx + 1 .. ctx + 15 for the high nibble and ctx + 16 .. ctx + 255
\* for the low nibble; an index belongs to one tree position only (whatever
\* byte is coded, the same index means the same prefix of the same nibble);
\* and the indices are below 0x4000 * 256, apart from every first, second
\* and third context index
LiteralOffsets ==
    \A k \in 1 .. Len(litIndices) :
       /\ OffsetInTree(litIndices[k], k)
       /\ OffsetInTree(EncByteSteps(litCtx, litByte)[k][1], k)
       /\ \A byte \in Bytes :
             \E steps \in {EncByteSteps(litCtx, byte)} :
                \A j \in 1 .. 8 :
                   steps[j][1] = litIndices[k] => TreePosition(byte, j) = TreePosition(litByte, k)
       /\ litIndices[k] < 16384 * 256
       /\ litIndices[k] \notin BitContextIndices

\* C29 witness: the byte 0xFF has been coded at the last literal context, its
\* last bit at offset 255, the index just below the first bit context
LiteralOffsetsWitness ==
    /\ litStep = 8
    /\ litByte = 255
    /\ litCtx = 16383 * 256
    /\ litIndices[1] = litCtx + 1
    /\ litIndices[8] = litCtx + 255
    /\ litIndices[8] + 1 \in BitContextIndices

(***************************************************************************)
(* The decoder's value and its coding interval.                            *)
(***************************************************************************)
\* low <= value <= high in the registers d of a BitDecoder
ValueInInterval(d) == U32Le(d.low, d.value) /\ U32Le(d.value, d.high)

\* C30: on the bytes a BitEncoder wrote, with the bytes past their end read
\* as 0, the decoder's registers satisfy low <= value <= high before every
\* call of bit() that decodes one of the bits the encoder coded, the last
\* one included
DecoderValueInInterval ==
    (rcPhase = "decode" /\ Len(rcDecoded) < Len(rcPairs)) => ValueInInterval(rcDec)

\* C30 witness: the decoder is about to decode the last bit, its
\* normalisation has shifted bytes in, it has asked for more bytes than the
\* encoder wrote, and value is strictly inside the interval
DecoderValueInIntervalWitness ==
    /\ rcPhase = "decode"
    /\ Len(rcDecoded) = Len(rcPairs) - 1
    /\ \E k \in 1 .. Len(rcDecoded) : rcDecoded[k].shifts > 0
    /\ 4 + EmittedUpTo(Len(rcDecoded)) > Len(rcEnc.out)
    /\ rcDec.pos = Len(rcEnc.out)
    /\ rcDec.value # rcDec.low
    /\ rcDec.value # rcDec.high
    /\ ValueInInterval(rcDec)

(***************************************************************************)
(* A source that fails.                                                    *)
(***************************************************************************)
\* reader.read() returned Err and no other thread failed of its own
ReaderFailedAlone ==
    /\ plStage["reader"] = "io"
    /\ \A t \in Stages \ {"reader"} : plStage[t] \notin {"io", "panic"}

\* the bytes of the buffers that the reader's endpoint sent before it was
\* dropped: what was read but for the bytes in the buffer it still held
HandedOver == SubSeq(plInput, 1, plRead - pipes["bytes"].out.index)

\* C31: a reader that fails is seen downstream as a clean end of input.
\* When reader.read() has returned Err, no thread after the reader fails,
\* the sink receives a prefix of the stream of the bytes handed over before
\* the failure (the bytes in the buffer the reader still held are lost), all
\* of that stream, with its end-of-stream marker, once the writer has
\* returned, and when encode returns it returns the reader's error.
DroppedReaderIsCleanEnd ==
    ReaderFailedAlone =>
       \E expected \in {EncodeAll(HandedOver)} :
          /\ \A t \in Stages \ {"reader"} : plStage[t] # "failed"
          /\ IsPrefix(plSink, expected)
          /\ plStage["writer"] = "returned" =>
                /\ plSink = expected
                /\ plStage["primary"] = "returned"
                /\ plStage["secondary"] = "returned"
          /\ plReturn # NoResult =>
                /\ plReturn = [stage |-> "reader", kind |-> "io"]
                /\ plStage["writer"] = "returned"

\* C31 witness: with buffers of two bytes the reader handed over a full
\* buffer, read a third byte and failed; encode has returned the reader's
\* error and the sink holds the stream of the first two bytes
DroppedReaderIsCleanEndWitness ==
    /\ ReaderFailedAlone
    /\ pipes["bytes"].size = 2
    /\ plRead = 3
    /\ pipes["bytes"].out.index = 1
    /\ HandedOver = <<65, 0>>
    /\ plReturn = [stage |-> "reader", kind |-> "io"]
    /\ plSink = EncodeAll(<<65, 0>>)
    /\ plSink # EncodeAll(plInput)

(***************************************************************************)
(* The primary hash.                                                       *)
(***************************************************************************)
\* C32: the primary hash is a function of the last five bytes.  The hash
\* values are in 0 .. 2^24 - 1, and two contexts that have been fed the same
\* five or more bytes last have the same hash_value, whatever each was fed
\* before.
HashOfLastFive ==
    /\ hshA.hash_value \in 0 .. PRIMARY_CONTEXT_SIZE - 1
    /\ hshB.hash_value \in 0 .. PRIMARY_CONTEXT_SIZE - 1
    /\ \A k \in 5 .. Len(hshTrail) : hshTrail[k][1] = hshTrail[k][2]
    /\ Len(hshTail) >= 5 => hshA.hash_value = hshB.hash_value

\* C32 witness: two contexts fed different bytes first still differed in
\* their hash values after four common bytes and agree after the fifth, on
\* a hash value of more than 16 bits
HashOfLastFiveWitness ==
    /\ Len(hshTail) = 5
    /\ hshPre[1] # hshPre[2]
    /\ Len(hshPre[1]) = Len(hshPre[2])
    /\ hshTrail[4][1] # hshTrail[4][2]
    /\ hshTrail[5][1] = hshTrail[5][2]
    /\ hshA.hash_value = hshB.hash_value
    /\ hshA.hash_value > 65535

=========================================================================
